---- MODULE Spec2Model ----
(***************************************************************************)
(* A model of the tactical core of civng: hex positions and the            *)
(* PathWalker (src/src/hexpos.rs), terrain (src/src/terrain.rs), units     *)
(* (src/src/unit.rs), the live map with its reachability resolver          *)
(* (src/src/map.rs), combat (src/src/combat.rs), and the game loop around  *)
(* them (src/src/game.rs) with the wandering AI (src/src/ai.rs).           *)
(*                                                                         *)
(* Conventions.  A Pos is the tuple <<x, y, z>>, an OffsetPos the tuple    *)
(* <<x, y>>.  A PosPath is the sequence of its stack.  Option<PosPath> is  *)
(* the path or the empty sequence (a PosPath is never empty).  Unit ids    *)
(* are 1-based here (the vector index plus one); Option<UnitID> is the id  *)
(* or NoUnit.                                                              *)
(***************************************************************************)
EXTENDS Integers, Sequences, FiniteSets, TLC

VARIABLES
    walker,     \* the PathWalker under test: origin, max_depth, backing_off, current_path
    yielded,    \* what the last call of next() returned (<<>> is None)
    calls,      \* how the walker was last used: "new", "next", "backoff"
    prev,       \* the values of yielded and calls before the last use of the walker
    seen,       \* the paths returned so far by next(), in a run without pruning
    count,      \* how many paths next() has returned so far
    exhausted,  \* next() has returned None at least once
    terrain,    \* LiveMap.terrain
    units,      \* LiveMap.units: the vector of units, dead ones included
    combat,     \* the CombatStats in hand: <<cs>>, or <<>> when there is none
    panicked,   \* an assertion of the program has failed
    ops,        \* how many operations the map has gone through
    last,       \* the last operation, with the units as they were before it
    game        \* the Game around the map: state, current_dialog, movemode, selection, turn

walkervars == <<walker, yielded, calls, prev, seen, count, exhausted>>

mapvars == <<terrain, units, combat, panicked, ops, last, game>>

vars == <<walker, yielded, calls, prev, seen, count, exhausted,
          terrain, units, combat, panicked, ops, last, game>>

----------------------------------------------------------------------------
(* Bounds *)

\* Largest max_depth a PathWalker is built with.
MaxDepth == 3

\* Longest sequence of operations on the live map in one run.
MaxOps == 3

\* Columns and rows of the positions converted lie in -CoordReach..CoordReach.
CoordReach == 4

\* Paths a walker returns before its caller stops asking for more.
MaxYield == 3

----------------------------------------------------------------------------
(* hexpos.rs : Direction and Pos *)

DIRECTION_COUNT == 6

Direction_all ==
    <<"North", "NorthEast", "SouthEast", "South", "SouthWest", "NorthWest">>

Direction == {Direction_all[i] : i \in 1..DIRECTION_COUNT}

Pos_origin == <<0, 0, 0>>

\* A neighbor whose step to the north forgets z.
neighbor_lopsided(p, direction) ==
    CASE direction = "North"     -> <<p[1], p[2] + 1, p[3]>>
      [] direction = "NorthEast" -> <<p[1] + 1, p[2], p[3] - 1>>
      [] direction = "SouthEast" -> <<p[1] + 1, p[2] - 1, p[3]>>
      [] direction = "South"     -> <<p[1], p[2] - 1, p[3] + 1>>
      [] direction = "SouthWest" -> <<p[1] - 1, p[2], p[3] + 1>>
      [] direction = "NorthWest" -> <<p[1] - 1, p[2] + 1, p[3]>>

neighbor(p, direction) ==
    CASE direction = "North"     -> <<p[1], p[2] + 1, p[3] - 1>>
      [] direction = "NorthEast" -> <<p[1] + 1, p[2], p[3] - 1>>
      [] direction = "SouthEast" -> <<p[1] + 1, p[2] - 1, p[3]>>
      [] direction = "South"     -> <<p[1], p[2] - 1, p[3] + 1>>
      [] direction = "SouthWest" -> <<p[1] - 1, p[2], p[3] + 1>>
      [] direction = "NorthWest" -> <<p[1] - 1, p[2] + 1, p[3]>>

around(p) == [i \in 1..DIRECTION_COUNT |-> neighbor(p, Direction_all[i])]

translate(p, other) == <<p[1] + other[1], p[2] + other[2], p[3] + other[3]>>

amplify(p, factor) == <<p[1] * factor, p[2] * factor, p[3] * factor>>

neg(p) == <<-p[1], -p[2], -p[3]>>

\* Rust's `/` on i32 truncates towards zero.
TruncDiv(a, b) == IF a >= 0 THEN a \div b ELSE -((-a) \div b)

\* A conversion that rounds the half column down instead of towards zero.
to_offset_pos_floor(p) == <<p[1], p[3] + (p[1] \div 2)>>

to_offset_pos(p) == <<p[1], p[3] + TruncDiv(p[1], 2)>>

----------------------------------------------------------------------------
(* hexpos.rs : PosPath *)

PosPath_new(origin) == <<origin>>

PosPath_to(path) == path[Len(path)]

PosPath_from(path) == path[1]

steps(path) == Len(path) - 1

\* Only called when steps(path) > 0; None otherwise.
before_last(path) == path[Len(path) - 1]

go(path, towards) == Append(path, neighbor(PosPath_to(path), towards))

----------------------------------------------------------------------------
(* hexpos.rs : PathWalker *)

\* A walker that goes one step deeper than asked.
PathWalker_new_deeper(origin, max_depth) ==
    [origin |-> origin, max_depth |-> max_depth + 1,
     backing_off |-> FALSE, current_path |-> <<>>]

PathWalker_new(origin, max_depth) ==
    [origin |-> origin, max_depth |-> max_depth,
     backing_off |-> FALSE, current_path |-> <<>>]

\* A direction order that takes SouthEast before NorthEast.
nextdir_swapped(dir) ==
    CASE dir = "North"     -> "SouthEast"
      [] dir = "SouthEast" -> "NorthEast"
      [] dir = "NorthEast" -> "South"
      [] dir = "South"     -> "SouthWest"
      [] dir = "SouthWest" -> "NorthWest"
      [] dir = "NorthWest" -> "None"

\* A direction order that forgets South.
nextdir_skip(dir) ==
    CASE dir = "North"     -> "NorthEast"
      [] dir = "NorthEast" -> "SouthEast"
      [] dir = "SouthEast" -> "SouthWest"
      [] dir = "South"     -> "SouthWest"
      [] dir = "SouthWest" -> "NorthWest"
      [] dir = "NorthWest" -> "None"

\* A direction order that goes round: North follows NorthWest.
nextdir_round(dir) ==
    CASE dir = "North"     -> "NorthEast"
      [] dir = "NorthEast" -> "SouthEast"
      [] dir = "SouthEast" -> "South"
      [] dir = "South"     -> "SouthWest"
      [] dir = "SouthWest" -> "NorthWest"
      [] dir = "NorthWest" -> "North"

\* The direction after dir, or "None" after the last one.
nextdir(dir) ==
    CASE dir = "North"     -> "NorthEast"
      [] dir = "NorthEast" -> "SouthEast"
      [] dir = "SouthEast" -> "South"
      [] dir = "South"     -> "SouthWest"
      [] dir = "SouthWest" -> "NorthWest"
      [] dir = "NorthWest" -> "None"

RECURSIVE GoAll(_, _, _)
GoAll(path, dirs, i) ==
    IF i > Len(dirs) THEN path ELSE GoAll(go(path, dirs[i]), dirs, i + 1)

get_current_path(w) == GoAll(PosPath_new(w.origin), w.current_path, 1)

\* A backoff() that leaves the walker as it is.
backoff_noop(w) == w

backoff(w) == [w EXCEPT !.backing_off = TRUE]

\* tick: the walker after the call and the path returned (<<>> for None).
tick(w) ==
    IF w.current_path = <<>> THEN [w |-> w, result |-> <<>>]
    ELSE LET n == Len(w.current_path)
             d == nextdir(w.current_path[n])
         IN IF d # "None"
            THEN LET w2 == [w EXCEPT !.current_path[n] = d]
                 IN [w |-> w2, result |-> get_current_path(w2)]
            ELSE [w |-> w, result |-> <<>>]

RECURSIVE PathWalker_next(_)
PathWalker_next(w) ==
    IF w.max_depth = 0 THEN [w |-> w, result |-> <<>>]
    ELSE IF ~w.backing_off /\ Len(w.current_path) < w.max_depth
    THEN LET w2 == [w EXCEPT !.current_path = Append(@, "North")]
         IN [w |-> w2, result |-> get_current_path(w2)]
    ELSE LET w1 == [w EXCEPT !.backing_off = FALSE]
         IN IF w1.current_path = <<>> THEN [w |-> w1, result |-> <<>>]
            ELSE LET t == tick(w1)
                 IN IF t.result # <<>> THEN t
                    ELSE LET w3 == backoff(t.w)
                             w4 == [w3 EXCEPT !.current_path =
                                       SubSeq(@, 1, Len(@) - 1)]
                         IN PathWalker_next(w4)

----------------------------------------------------------------------------
(* terrain.rs : Terrain and TerrainMap *)

Terrain_all == <<"Plain", "Grassland", "Desert", "Hill", "Mountain", "Water">>

defense_modifier(t) == IF t = "Hill" THEN 25 ELSE 0

\* An is_passable that knows the terrains of the map file only.
is_passable_on_map(t) == t \notin {"Mountain", "Water"}

is_passable(t) == t \notin {"Mountain", "Water", "OutOfBounds"}

movement_cost(t) == IF t = "Hill" THEN 2 ELSE 1

\* data is the sequence of rows; Len(data) = width * height.
TerrainMap_new(width, height, data) ==
    [width |-> width, height |-> height, data |-> data]

get_terrain(tm, pos) ==
    LET opos == to_offset_pos(pos)
    IN IF opos[1] < 0 \/ opos[2] < 0 \/ opos[1] >= tm.width \/ opos[2] >= tm.height
       THEN "OutOfBounds"
       ELSE tm.data[opos[2] * tm.width + opos[1] + 1]

----------------------------------------------------------------------------
(* unit.rs : Unit and Units *)

NoUnit == 0

Min(a, b) == IF a < b THEN a ELSE b

Max(a, b) == IF a > b THEN a ELSE b

\* ranged_strength belongs to the unit type that combat.rs reads through
\* type_(); a unit built by Unit::new has no ranged attack.
Unit_new(owner, pos) ==
    [pos |-> pos, movements |-> 0, strength |-> 8, ranged_strength |-> 0,
     hp |-> 100, owner |-> owner]

is_exhausted(u) == u.movements = 0

is_dead(u) == u.hp = 0

move_to(u, target, cost) ==
    [u EXCEPT !.pos = target, !.movements = @ - Min(@, cost)]

\* A move_ that refuses a terrain that costs more than the unit has left.
move_strict(u, direction, t) ==
    IF u.movements = 0 \/ ~is_passable(t) \/ movement_cost(t) > u.movements
    THEN [unit |-> u, moved |-> FALSE]
    ELSE [unit |-> [u EXCEPT !.pos = neighbor(u.pos, direction),
                             !.movements = @ - movement_cost(t)],
          moved |-> TRUE]

\* Unit::move_: the unit afterwards and the boolean returned.
move_(u, direction, t) ==
    IF u.movements = 0 \/ ~is_passable(t)
    THEN [unit |-> u, moved |-> FALSE]
    ELSE LET c == movement_cost(t)
         IN [unit |-> [u EXCEPT !.pos = neighbor(u.pos, direction),
                                !.movements = IF c > @ THEN 0 ELSE @ - c],
             moved |-> TRUE]

Unit_refresh(u) == [u EXCEPT !.movements = 2]

\* all_units(): the ids of the units that are not dead, in vector order.
all_units(us) == {i \in 1..Len(us) : ~is_dead(us[i])}

\* The first live unit standing on pos, or NoUnit.
unit_at_pos(us, pos) ==
    LET here == {i \in all_units(us) : us[i].pos = pos}
    IN IF here = {} THEN NoUnit
       ELSE CHOOSE i \in here : \A j \in here : i <= j

\* Units::get_at_pos is called by map.rs but is not part of unit.rs as given:
\* the live unit standing on pos, as a one-element sequence, or <<>>.
get_at_pos(us, pos) ==
    LET uid == unit_at_pos(us, pos)
    IN IF uid = NoUnit THEN <<>> ELSE <<us[uid]>>

Units_refresh(us) == [i \in 1..Len(us) |-> Unit_refresh(us[i])]

----------------------------------------------------------------------------
(* combat.rs *)

Modifier_new(amount, modtype) == [amount |-> amount, modtype |-> modtype]

RECURSIVE SumAmounts(_, _)
SumAmounts(modifiers, i) ==
    IF i > Len(modifiers) THEN 0
    ELSE modifiers[i].amount + SumAmounts(modifiers, i + 1)

sum_modifiers(modifiers) == SumAmounts(modifiers, 1)

\* Strengths are f32 in the code; here a strength is carried as the integer
\* 100 * strength, which is exact: base * (100 + modifier).
apply_modifier(strength, modifier) == strength * (100 + modifier)

RECURSIVE GCD(_, _)
GCD(a, b) == IF b = 0 THEN a ELSE GCD(b, a % b)

\* [q, r] with a * n = q * d + r and 0 <= r < d, without leaving 32 bits.
RECURSIVE MulDiv(_, _, _)
MulDiv(a, n, d) ==
    IF a = 0 THEN [q |-> 0, r |-> 0]
    ELSE LET h  == MulDiv(a \div 2, n, d)
             c1 == IF 2 * h.r >= d THEN 1 ELSE 0
             r1 == 2 * h.r - c1 * d
             q1 == 2 * h.q + c1
             nq == IF a % 2 = 1 THEN n \div d ELSE 0
             nr == IF a % 2 = 1 THEN n % d ELSE 0
             c2 == IF r1 + nr >= d THEN 1 ELSE 0
         IN [q |-> q1 + nq + c2, r |-> r1 + nr - c2 * d]

\* penalty = ((100 - dealer_hp) / 20) as f32 * 0.1, in tenths.
PenaltyTenths(dealer_hp) == (100 - dealer_hp) \div 20

\* A compute_dmg_range with the base minimums of melee and ranged mixed up.
compute_dmg_range_swapped(source_strength, source_hp, target_strength, ranged) ==
    LET target_is_weak == source_strength > target_strength
        strong == IF target_is_weak THEN source_strength ELSE target_strength
        weak   == IF target_is_weak THEN target_strength ELSE source_strength
        g == GCD(strong, weak)
        s == strong \div g
        w == weak \div g
        a == 256 * (w ^ 4) + (s + 3 * w) ^ 4
        b == 512 * (w ^ 4)
        num == IF target_is_weak THEN a ELSE b
        den == IF target_is_weak THEN b ELSE a
        base_min == IF ranged THEN 40 ELSE 20
        BASE_SPREAD == 30
        keep == 10 - PenaltyTenths(source_hp)
        \* tenths of min and of min + spread, before the clamp of min to 1.0
        min10 == MulDiv(base_min * keep, num, den).q
        sum10 == MulDiv((base_min + BASE_SPREAD) * keep, num, den).q
        spread == MulDiv(BASE_SPREAD * keep, num, den)
    IN IF min10 < 10
       THEN <<1, (10 + spread.q) \div 10>>
       ELSE <<min10 \div 10, sum10 \div 10>>

\* Strengths come in as 100 * strength.  With s : w the reduced ratio of the
\* stronger to the weaker, m = 1/2 + (s/w + 3)^4 / 512
\*                           = (256 w^4 + (s + 3w)^4) / (512 w^4),
\* inverted when the target is not the weaker side.  A dealt value v * m loses
\* penalty * v * m, which leaves v * m * (10 - tenths) / 10.  The results are the
\* floors of the exact values; over the strengths, modifiers and hit points of
\* this model they are the values the f32 computation produces.
compute_dmg_range(source_strength, source_hp, target_strength, ranged) ==
    LET target_is_weak == source_strength > target_strength
        strong == IF target_is_weak THEN source_strength ELSE target_strength
        weak   == IF target_is_weak THEN target_strength ELSE source_strength
        g == GCD(strong, weak)
        s == strong \div g
        w == weak \div g
        a == 256 * (w ^ 4) + (s + 3 * w) ^ 4
        b == 512 * (w ^ 4)
        num == IF target_is_weak THEN a ELSE b
        den == IF target_is_weak THEN b ELSE a
        base_min == IF ranged THEN 20 ELSE 40
        BASE_SPREAD == 30
        keep == 10 - PenaltyTenths(source_hp)
        \* tenths of min and of min + spread, before the clamp of min to 1.0
        min10 == MulDiv(base_min * keep, num, den).q
        sum10 == MulDiv((base_min + BASE_SPREAD) * keep, num, den).q
        spread == MulDiv(BASE_SPREAD * keep, num, den)
    IN IF min10 < 10
       THEN <<1, (10 + spread.q) \div 10>>
       ELSE <<min10 \div 10, sum10 \div 10>>

CombatStats_new(attacker_id, attacker, attacker_modifiers, defender_id, defender, defender_modifiers) ==
    [ranged |-> attacker.ranged_strength > 0,
     attacker_id |-> attacker_id,
     defender_id |-> defender_id,
     attacker_base_strength |->
         IF attacker.ranged_strength > 0 THEN attacker.ranged_strength
         ELSE attacker.strength,
     defender_base_strength |->
         IF attacker.ranged_strength > 0
         THEN Max(defender.ranged_strength, defender.strength)
         ELSE defender.strength,
     attacker_starting_hp |-> attacker.hp,
     defender_starting_hp |-> defender.hp,
     dmg_to_attacker |-> 0,
     dmg_to_defender |-> 0,
     attacker_modifiers |-> attacker_modifiers,
     defender_modifiers |-> defender_modifiers]

attacker_strength(cs) ==
    apply_modifier(cs.attacker_base_strength, sum_modifiers(cs.attacker_modifiers))

defender_strength(cs) ==
    apply_modifier(cs.defender_base_strength, sum_modifiers(cs.defender_modifiers))

\* A range to the attacker that is computed for ranged attacks as well.
dmgrange_to_attacker_always(cs) ==
    compute_dmg_range(defender_strength(cs), cs.defender_starting_hp,
                      attacker_strength(cs), cs.ranged)

dmgrange_to_attacker(cs) ==
    IF cs.ranged THEN <<0, 0>>
    ELSE compute_dmg_range(defender_strength(cs), cs.defender_starting_hp,
                           attacker_strength(cs), cs.ranged)

dmgrange_to_defender(cs) ==
    compute_dmg_range(attacker_strength(cs), cs.attacker_starting_hp,
                      defender_strength(cs), cs.ranged)

attacker_remaining_hp(cs) ==
    IF cs.dmg_to_attacker > cs.attacker_starting_hp THEN 0
    ELSE cs.attacker_starting_hp - cs.dmg_to_attacker

defender_remaining_hp(cs) ==
    IF cs.dmg_to_defender > cs.defender_starting_hp THEN 0
    ELSE cs.defender_starting_hp - cs.dmg_to_defender

\* roll_dice draws any value of the inclusive range.
roll_dice(range) == range[1]..range[2]

\* A roll() that revives the unit that is further below zero.
roll_flipped(cs, rolled_to_attacker, rolled_to_defender) ==
    LET defender_hp == cs.defender_starting_hp - rolled_to_defender
        attacker_hp == cs.attacker_starting_hp - rolled_to_attacker
        both == defender_hp < 0 /\ attacker_hp < 0
        dmg_to_attacker ==
            IF both /\ attacker_hp < defender_hp
            THEN cs.attacker_starting_hp - 1 ELSE rolled_to_attacker
        dmg_to_defender ==
            IF both /\ ~(attacker_hp < defender_hp)
            THEN cs.defender_starting_hp - 1 ELSE rolled_to_defender
    IN [cs EXCEPT !.dmg_to_attacker = dmg_to_attacker,
                  !.dmg_to_defender = dmg_to_defender]

\* A roll() that revives the attacker when both are equally far below zero.
roll_tie_to_attacker(cs, rolled_to_attacker, rolled_to_defender) ==
    LET defender_hp == cs.defender_starting_hp - rolled_to_defender
        attacker_hp == cs.attacker_starting_hp - rolled_to_attacker
        both == defender_hp < 0 /\ attacker_hp < 0
        dmg_to_attacker ==
            IF both /\ attacker_hp >= defender_hp
            THEN cs.attacker_starting_hp - 1 ELSE rolled_to_attacker
        dmg_to_defender ==
            IF both /\ ~(attacker_hp >= defender_hp)
            THEN cs.defender_starting_hp - 1 ELSE rolled_to_defender
    IN [cs EXCEPT !.dmg_to_attacker = dmg_to_attacker,
                  !.dmg_to_defender = dmg_to_defender]

\* roll(), given the two values the dice gave.
roll(cs, rolled_to_attacker, rolled_to_defender) ==
    LET defender_hp == cs.defender_starting_hp - rolled_to_defender
        attacker_hp == cs.attacker_starting_hp - rolled_to_attacker
        both == defender_hp < 0 /\ attacker_hp < 0
        dmg_to_attacker ==
            IF both /\ attacker_hp > defender_hp
            THEN cs.attacker_starting_hp - 1 ELSE rolled_to_attacker
        dmg_to_defender ==
            IF both /\ ~(attacker_hp > defender_hp)
            THEN cs.defender_starting_hp - 1 ELSE rolled_to_defender
    IN [cs EXCEPT !.dmg_to_attacker = dmg_to_attacker,
                  !.dmg_to_defender = dmg_to_defender]

\* An attack that always advances onto the defender's tile.
Units_attack_advance(us, rolled) ==
    LET from_id == rolled.attacker_id
        to_id == rolled.defender_id
        u1 == [us EXCEPT ![from_id].hp = attacker_remaining_hp(rolled)]
        u2 == [u1 EXCEPT ![from_id].movements = 0]
        u3 == [u2 EXCEPT ![to_id].hp = defender_remaining_hp(rolled)]
    IN [u3 EXCEPT ![from_id].pos = u3[to_id].pos]

\* Units::attack, given the rolled combat: the units afterwards.
Units_attack(us, rolled) ==
    LET from_id == rolled.attacker_id
        to_id == rolled.defender_id
        u1 == [us EXCEPT ![from_id].hp = attacker_remaining_hp(rolled)]
        u2 == [u1 EXCEPT ![from_id].movements = 0]
        u3 == [u2 EXCEPT ![to_id].hp = defender_remaining_hp(rolled)]
    IN IF defender_remaining_hp(rolled) = 0
       THEN [u3 EXCEPT ![from_id].pos = u3[to_id].pos]
       ELSE u3

----------------------------------------------------------------------------
(* map.rs : LivePath *)

\* A LiveMap is the record [terrain |-> TerrainMap, units |-> Units].

HINDRANCE_UNIT == "HINDRANCE_UNIT"

HINDRANCE_ZOC == "HINDRANCE_ZOC"

\* mover is <<owner>> or <<>>.
get_hindrances(map, pos, mover) ==
    IF mover = <<>> THEN {}
    ELSE LET here == get_at_pos(map.units, pos)
             on_cell == IF here # <<>> THEN {HINDRANCE_UNIT} ELSE {}
             enemy_on_cell ==
                 IF here # <<>> /\ here[1].owner # mover[1]
                 THEN {HINDRANCE_ZOC} ELSE {}
             enemy_around ==
                 IF \E i \in 1..DIRECTION_COUNT :
                        LET u == get_at_pos(map.units, around(pos)[i])
                        IN u # <<>> /\ u[1].owner # mover[1]
                 THEN {HINDRANCE_ZOC} ELSE {}
         IN on_cell \cup enemy_on_cell \cup enemy_around

LivePath_new(path, map) ==
    LET first == get_at_pos(map.units, path[1])
        last_ == get_at_pos(map.units, path[Len(path)])
        mover == IF first # <<>> THEN <<first[1].owner>> ELSE <<>>
        target == IF last_ # <<>> THEN <<last_[1].owner>> ELSE <<>>
    IN [path |-> path,
        terrain |-> [i \in 1..Len(path) |-> get_terrain(map.terrain, path[i])],
        hindrances |-> [i \in 1..Len(path) |-> get_hindrances(map, path[i], mover)],
        mover |-> mover,
        target |-> target]

\* The loop of moves_through_zoc over hindrances[i..last_index].
RECURSIVE ZocLoop(_, _, _, _)
ZocLoop(hindrances, i, last_index, was_zoc) ==
    IF i > last_index THEN FALSE
    ELSE IF HINDRANCE_ZOC \in hindrances[i]
         THEN IF was_zoc THEN TRUE
              ELSE ZocLoop(hindrances, i + 1, last_index, TRUE)
         ELSE ZocLoop(hindrances, i + 1, last_index, FALSE)

moves_through_zoc(lp, including_last_index) ==
    LET last_index == IF including_last_index THEN Len(lp.hindrances)
                      ELSE Len(lp.hindrances) - 1
    IN ZocLoop(lp.hindrances, 1, last_index, FALSE)

is_attack(lp) ==
    IF lp.mover # <<>>
    THEN IF lp.target # <<>> THEN lp.target[1] # lp.mover[1] ELSE FALSE
    ELSE FALSE

\* A could_be_reachable that does not look at zones of control.
could_be_reachable_anyzoc(lp) ==
    IF lp.mover = <<>> THEN FALSE
    ELSE ~(\E i \in 1..Len(lp.terrain) : ~is_passable(lp.terrain[i]))

could_be_reachable(lp) ==
    IF lp.mover = <<>> THEN FALSE
    ELSE IF \E i \in 1..Len(lp.terrain) : ~is_passable(lp.terrain[i]) THEN FALSE
    ELSE ~moves_through_zoc(lp, FALSE)

\* An is_reachable that does not mind a unit on the destination.
is_reachable_occupied(lp) ==
    IF ~could_be_reachable(lp) THEN FALSE
    ELSE steps(lp.path) # 0

is_reachable(lp) ==
    IF ~could_be_reachable(lp) THEN FALSE
    ELSE IF steps(lp.path) = 0 THEN FALSE
    ELSE HINDRANCE_UNIT \notin lp.hindrances[Len(lp.hindrances)] \/ is_attack(lp)

RECURSIVE CostFrom(_, _)
CostFrom(ts, i) ==
    IF i > Len(ts) THEN 0
    ELSE movement_cost(ts[i]) + CostFrom(ts, i + 1)

cost(lp) == CostFrom(lp.terrain, 2)

\* An is_exhausting that leaves the destination out.
is_exhausting_short(lp) == moves_through_zoc(lp, FALSE)

is_exhausting(lp) == moves_through_zoc(lp, TRUE)

----------------------------------------------------------------------------
(* map.rs : LiveMap *)

\* The result map of reachable_pos is a function from destinations to paths.
MapInsert(result, key, value) ==
    [k \in (DOMAIN result) \cup {key} |-> IF k = key THEN value ELSE result[k]]

EmptyMap == [k \in {} |-> <<>>]

\* A lookup that answers with some stored path when the key is absent.
reachable_get_any(reachable, pos) ==
    IF pos \in DOMAIN reachable THEN <<reachable[pos]>>
    ELSE IF DOMAIN reachable = {} THEN <<>>
    ELSE <<reachable[CHOOSE k \in DOMAIN reachable : TRUE]>>

\* HashMap::get on the map reachable_pos returned: the path stored under pos.
reachable_get(reachable, pos) ==
    IF pos \in DOMAIN reachable THEN <<reachable[pos]>> ELSE <<>>

\* An entry that is overwritten by whatever path comes later.
result_entry_overwrite(map, result, path, c) ==
    MapInsert(result, PosPath_to(path), path)

\* The match on result.entry(path.to()): path, of cost c, goes into the map
\* when its destination is vacant or held by a costlier path.
result_entry(map, result, path, c) ==
    LET to == PosPath_to(path)
    IN IF to \in DOMAIN result
       THEN IF c < cost(LivePath_new(result[to], map))
            THEN MapInsert(result, to, path)
            ELSE result
       ELSE MapInsert(result, to, path)

\* A test that lets a path of cost equal to the unit's movements go on.
is_spent_late(unit, c) == c > unit.movements

\* `cost >= unit.movements()`: no movement is left after a path of cost c.
is_spent(unit, c) == c >= unit.movements

\* The while loop of reachable_pos: w is the walker, result the map so far.
\* enumerated collects, for the record, the paths next() has returned.
RECURSIVE ReachLoop(_, _, _, _, _)
\* The end of the loop's body, for a path that could be reachable: livepath, of
\* cost c, is the path next() returned, n.w the walker after that call.
ReachBodyEnd(map, unit, n, livepath, c, result, enumerated) ==
    ReachLoop(map, unit,
              IF is_spent(unit, c) THEN backoff(n.w) ELSE n.w,
              IF is_reachable(livepath) THEN result_entry(map, result, n.result, c)
              ELSE result,
              enumerated)

\* The loop's body for the path next() returned.
ReachBody(map, unit, n, livepath, result, enumerated) ==
    IF ~could_be_reachable(livepath)
    THEN ReachLoop(map, unit, backoff(n.w), result, enumerated)
    ELSE ReachBodyEnd(map, unit, n, livepath, cost(livepath), result, enumerated)

\* The loop's test: n is what next() returned, with the walker after the call.
ReachTest(map, unit, n, result, enumerated) ==
    IF n.result = <<>> THEN [result |-> result, enumerated |-> enumerated]
    ELSE ReachBody(map, unit, n, LivePath_new(n.result, map), result,
                   enumerated \cup {n.result})

ReachLoop(map, unit, w, result, enumerated) ==
    ReachTest(map, unit, PathWalker_next(w), result, enumerated)

\* reachable_pos together with the paths it went through.
reachable_pos_run(map, unit_id) ==
    LET unit == map.units[unit_id]
    IN ReachLoop(map, unit, PathWalker_new(unit.pos, unit.movements), EmptyMap, {})

reachable_pos(map, unit_id) == reachable_pos_run(map, unit_id).result

get_terrain_modifier(map, unit_id) ==
    LET amount == defense_modifier(get_terrain(map.terrain, map.units[unit_id].pos))
    IN IF amount # 0 THEN <<Modifier_new(amount, "Terrain")>> ELSE <<>>

\* The while loop of get_flanking_modifier.
RECURSIVE FlankLoop(_, _, _, _)
FlankLoop(map, against, w, flank_count) ==
    LET n == PathWalker_next(w)
    IN IF n.result = <<>> THEN flank_count
       ELSE LET uid == unit_at_pos(map.units, PosPath_to(n.result))
                inc == IF uid # NoUnit /\ map.units[uid].owner # against.owner
                       THEN 1 ELSE 0
            IN FlankLoop(map, against, n.w, flank_count + inc)

\* A flanking modifier that counts the first flanking unit as well.
get_flanking_modifier_full(map, against_id) ==
    LET against == map.units[against_id]
        flank_count == FlankLoop(map, against, PathWalker_new(against.pos, 1), 0)
    IN IF flank_count > 0
       THEN <<Modifier_new(flank_count * 10, "Flanking")>>
       ELSE <<>>

get_flanking_modifier(map, against_id) ==
    LET against == map.units[against_id]
        flank_count == FlankLoop(map, against, PathWalker_new(against.pos, 1), 0)
    IN IF flank_count > 1
       THEN <<Modifier_new((flank_count - 1) * 10, "Flanking")>>
       ELSE <<>>

\* Modifiers that give the terrain's defense to the attacker as well.
get_unit_modifiers_both(map, unit_id, against_id, defends) ==
    get_terrain_modifier(map, unit_id) \o get_flanking_modifier(map, against_id)

get_unit_modifiers(map, unit_id, against_id, defends) ==
    (IF defends THEN get_terrain_modifier(map, unit_id) ELSE <<>>)
        \o get_flanking_modifier(map, against_id)

\* moveunit_to gives back the units afterwards, the Option<CombatStats> it
\* returns (<<cs>> or <<>>) and whether one of its assertions failed.  It calls
\* itself once, for the step that brings an attacker next to its target.
\* moveunit_to_from is its body, given what reachable_pos returned.
RECURSIVE moveunit_to(_, _, _)
\* The combat moveunit_to returns, the attacker brought next to its target:
\* moved is what the call for that step gave back.
preview_after(map, unit_id, defender_id, moved) ==
    LET map2 == [map EXCEPT !.units = moved.units]
        defender == map2.units[defender_id]
        attacker == map2.units[unit_id]
    IN IF moved.panic \/ defender.owner = "Me"
       THEN [units |-> moved.units, stats |-> <<>>, panic |-> TRUE]
       ELSE [units |-> moved.units,
             stats |-> <<CombatStats_new(
                 unit_id, attacker,
                 get_unit_modifiers(map2, unit_id, defender_id, FALSE),
                 defender_id, defender,
                 get_unit_modifiers(map2, defender_id, unit_id, TRUE))>>,
             panic |-> FALSE]

\* moveunit_to along the path found in the reachable map.
moveunit_along(map, unit_id, path, livepath) ==
    LET defender_id == unit_at_pos(map.units, PosPath_to(path))
    IN IF defender_id # NoUnit
       THEN IF steps(path) > 1
               /\ unit_at_pos(map.units, before_last(path)) # NoUnit
            THEN [units |-> map.units, stats |-> <<>>, panic |-> TRUE]
            ELSE preview_after(map, unit_id, defender_id,
                     IF steps(path) > 1
                     THEN moveunit_to(map, unit_id, before_last(path))
                     ELSE [units |-> map.units, stats |-> <<>>, panic |-> FALSE])
       ELSE LET unit == map.units[unit_id]
                c == IF is_exhausting(livepath) THEN unit.movements
                     ELSE cost(livepath)
            IN [units |-> [map.units EXCEPT
                              ![unit_id] = move_to(unit, PosPath_to(path), c)],
                stats |-> <<>>, panic |-> FALSE]

moveunit_to_from(map, unit_id, pos, reachable) ==
    IF reachable_get(reachable, pos) = <<>>
    THEN [units |-> map.units, stats |-> <<>>, panic |-> FALSE]
    ELSE moveunit_along(map, unit_id, reachable_get(reachable, pos)[1],
                        LivePath_new(reachable_get(reachable, pos)[1], map))

moveunit_to(map, unit_id, pos) ==
    moveunit_to_from(map, unit_id, pos, reachable_pos(map, unit_id))

----------------------------------------------------------------------------
(* Reference notions for paths, stated on positions only *)

\* The six unit vectors of the hex grid, in the order of Direction::all().
HexVectors ==
    <<<<0, 1, -1>>, <<1, 0, -1>>, <<1, -1, 0>>,
      <<0, -1, 1>>, <<-1, 0, 1>>, <<-1, 1, 0>>>>

Abs(n) == IF n < 0 THEN -n ELSE n

\* q is one of the six cells adjacent to p.
IsHexNeighbor(p, q) ==
    /\ (q[1] - p[1]) + (q[2] - p[2]) + (q[3] - p[3]) = 0
    /\ Abs(q[1] - p[1]) <= 1 /\ Abs(q[2] - p[2]) <= 1 /\ Abs(q[3] - p[3]) <= 1
    /\ q # p

\* Rank (1..6) of the step from p to the adjacent cell q in the direction order.
StepRank(p, q) ==
    CHOOSE i \in 1..DIRECTION_COUNT :
        HexVectors[i] = <<q[1] - p[1], q[2] - p[2], q[3] - p[3]>>

IsValidPath(path) ==
    \A i \in 1..(Len(path) - 1) : IsHexNeighbor(path[i], path[i + 1])

IsProperPrefix(p, q) ==
    Len(p) < Len(q) /\ SubSeq(q, 1, Len(p)) = p

\* p comes before q in depth-first pre-order: p is a proper prefix of q, or at
\* the first position where they differ p takes the earlier direction.
PreLess(p, q) ==
    \/ IsProperPrefix(p, q)
    \/ \E i \in 2..Len(p) :
          /\ i <= Len(q)
          /\ SubSeq(p, 1, i - 1) = SubSeq(q, 1, i - 1)
          /\ p[i] # q[i]
          /\ StepRank(p[i - 1], p[i]) < StepRank(q[i - 1], q[i])

\* Every path of exactly k steps from origin.
RECURSIVE PathsOfSteps(_, _)
PathsOfSteps(origin, k) ==
    IF k = 0 THEN {<<origin>>}
    ELSE {Append(p, <<p[Len(p)][1] + HexVectors[i][1],
                      p[Len(p)][2] + HexVectors[i][2],
                      p[Len(p)][3] + HexVectors[i][3]>>) :
            p \in PathsOfSteps(origin, k - 1), i \in 1..DIRECTION_COUNT}

\* Every path of 1..max_depth steps from origin.
AllPaths(origin, max_depth) ==
    UNION {PathsOfSteps(origin, k) : k \in 1..max_depth}

\* path extended by one step in the i-th direction of the direction order.
Extended(path, i) ==
    Append(path, <<path[Len(path)][1] + HexVectors[i][1],
                   path[Len(path)][2] + HexVectors[i][2],
                   path[Len(path)][3] + HexVectors[i][3]>>)

\* Depth-first pre-order of the tree of paths below path, depth more steps
\* deep: the path itself, then the traversals of its six extensions, taken in
\* the direction order.
RECURSIVE PreOrderFrom(_, _)
PreOrderFrom(path, depth) ==
    IF depth = 0 THEN <<path>>
    ELSE <<path>> \o PreOrderFrom(Extended(path, 1), depth - 1)
                  \o PreOrderFrom(Extended(path, 2), depth - 1)
                  \o PreOrderFrom(Extended(path, 3), depth - 1)
                  \o PreOrderFrom(Extended(path, 4), depth - 1)
                  \o PreOrderFrom(Extended(path, 5), depth - 1)
                  \o PreOrderFrom(Extended(path, 6), depth - 1)

RECURSIVE SumPow6(_, _)
\* 6^from + ... + 6^to
SumPow6(from, to) ==
    IF from > to THEN 0 ELSE (6 ^ from) + SumPow6(from + 1, to)

----------------------------------------------------------------------------
(* game.rs : the Game as Game::new leaves it *)

\* Option<Dialog> is <<>> or <<kind>>, Option<Pos> is <<>> or <<pos>>.  The
\* CombatStats that MainloopState::CombatConfirm carries are held in combat.
\* running is what handle_events last returned.  The fields that only serve
\* the display (term, screen, details_window, show_pos_markers) are left out.
Game_new ==
    [state |-> "Normal", movemode |-> "Normal", turn |-> 0,
     selection |-> [unit_id |-> NoUnit, pos |-> <<>>],
     current_dialog |-> <<>>, running |-> TRUE]

----------------------------------------------------------------------------
(* The PathWalker driven from outside *)

\* Origins the walkers are built at (one of them in a negative odd column).
Origins == {Pos_origin, <<-1, 2, -1>>}

\* The paths of 1..max_depth steps from each origin, in depth-first pre-order.
UnprunedOrder ==
    [o \in Origins |-> [d \in 0..MaxDepth |-> Tail(PreOrderFrom(<<o>>, d))]]

\* No map is involved when the walker is driven on its own.
NoMap ==
    /\ game = Game_new
    /\ terrain = TerrainMap_new(0, 0, <<>>)
    /\ units = <<>>
    /\ combat = <<>>
    /\ panicked = FALSE
    /\ ops = 0
    /\ last = [op |-> "none"]

WalkerInit ==
    /\ NoMap
    /\ walker \in {PathWalker_new(o, d) : o \in Origins, d \in 0..MaxDepth}
    /\ yielded = <<>>
    /\ calls = "new"
    /\ prev = [path |-> <<>>, calls |-> "new"]
    /\ seen = {}
    /\ count = 0
    /\ exhausted = FALSE

\* next() is called again, as long as it has not returned None; nobody calls
\* backoff() between the calls.
WalkNext ==
    /\ ~exhausted
    /\ LET r == PathWalker_next(walker)
       IN /\ walker' = r.w
          /\ yielded' = r.result
          /\ calls' = "next"
          /\ prev' = [path |-> yielded, calls |-> calls]
          /\ exhausted' = (r.result = <<>>)
          /\ seen' = IF r.result = <<>> THEN seen ELSE seen \cup {r.result}
          /\ count' = IF r.result = <<>> THEN count ELSE count + 1
          /\ UNCHANGED mapvars

WalkNextStep == WalkNext

SpecWalk == WalkerInit /\ [][WalkNextStep]_vars

\* next() is called, whatever it returned before.
PruneNext ==
    LET r == PathWalker_next(walker)
    IN /\ walker' = r.w
       /\ yielded' = r.result
       /\ calls' = "next"
       /\ prev' = [path |-> yielded, calls |-> calls]
       /\ exhausted' = (exhausted \/ r.result = <<>>)
       /\ UNCHANGED <<seen, count>>
       /\ UNCHANGED mapvars

\* backoff() is called right after next() returned a path.
PruneBackoff ==
    /\ calls = "next"
    /\ yielded # <<>>
    /\ walker' = backoff(walker)
    /\ calls' = "backoff"
    /\ prev' = [path |-> yielded, calls |-> calls]
    /\ UNCHANGED <<yielded, seen, count, exhausted>>
    /\ UNCHANGED mapvars

PruneStep == PruneNext \/ PruneBackoff

SpecPrune == WalkerInit /\ [][PruneStep]_vars

\* A caller that also asks the walker for its current path.  get_current_path
\* has no assertion and no unwrap: it always answers with a path.
AskNext ==
    /\ count < MaxYield
    /\ LET r == PathWalker_next(walker)
       IN /\ walker' = r.w
          /\ yielded' = r.result
          /\ count' = IF r.result = <<>> THEN count ELSE count + 1
          /\ exhausted' = (exhausted \/ r.result = <<>>)
    /\ calls' = "next"
    /\ prev' = [path |-> yielded, calls |-> calls]
    /\ last' = [op |-> "next"]
    /\ UNCHANGED <<seen, game, terrain, units, combat, panicked, ops>>

AskBackoff ==
    /\ calls # "backoff"
    /\ walker' = backoff(walker)
    /\ calls' = "backoff"
    /\ prev' = [path |-> yielded, calls |-> calls]
    /\ last' = [op |-> "backoff"]
    /\ UNCHANGED <<yielded, seen, count, exhausted>>
    /\ UNCHANGED <<game, terrain, units, combat, panicked, ops>>

AskCurrentPath ==
    /\ last' = [op |-> "get_current_path", path |-> get_current_path(walker)]
    /\ panicked' = FALSE
    /\ UNCHANGED walkervars
    /\ UNCHANGED <<game, terrain, units, combat, ops>>

AskStep == AskNext \/ AskBackoff \/ AskCurrentPath

SpecAsk == WalkerInit /\ [][AskStep]_vars

----------------------------------------------------------------------------
(* The live map in play *)

\* The terrain of the battlefield, rows of columns in offset coordinates:
\*      G  G  H
\*      G  G  G
\*      M  G  W
Battlefield ==
    TerrainMap_new(3, 3,
        <<"Grassland", "Grassland", "Hill",
          "Grassland", "Grassland", "Grassland",
          "Mountain",  "Grassland", "Water">>)

\* OffsetPos::to_pos: Rust's div_rem truncates towards zero.
to_pos(opos) ==
    LET halfx == TruncDiv(opos[1], 2)
        remx == opos[1] - 2 * halfx
    IN <<opos[1], (-opos[2]) + (-halfx - remx), opos[2] + (-halfx)>>

\* A unit in the middle of a game: wounded in an earlier exchange (100 - 70),
\* refreshed at the start of the turn.
Veteran(owner, opos) ==
    [Unit_refresh(Unit_new(owner, to_pos(opos))) EXCEPT !.hp = 30]

\* The line-ups the play starts from.
Lineups ==
    {<<Veteran("Me", a), Veteran("NotMe", b)>> :
        a \in {<<0, 1>>, <<1, 1>>}, b \in {<<2, 0>>, <<2, 1>>}}
    \cup
    {<<Veteran("Me", <<0, 0>>), Veteran("Me", <<1, 0>>), Veteran("NotMe", <<2, 0>>)>>,
     <<Veteran("Me", <<1, 2>>), Veteran("NotMe", <<1, 0>>), Veteran("NotMe", <<2, 1>>)>>}

NoWalker ==
    /\ walker = PathWalker_new(Pos_origin, 0)
    /\ yielded = <<>>
    /\ calls = "new"
    /\ prev = [path |-> <<>>, calls |-> "new"]
    /\ seen = {}
    /\ count = 0
    /\ exhausted = FALSE

Init ==
    /\ NoWalker
    /\ game = Game_new
    /\ terrain = Battlefield
    /\ units \in Lineups
    /\ combat = <<>>
    /\ panicked = FALSE
    /\ ops = 0
    /\ last = [op |-> "none"]

LiveMap == [terrain |-> terrain, units |-> units]

\* An operation may start: the program runs and the play is not over.
MayAct == ops < MaxOps /\ ~panicked

\* LiveMap::refresh, at the start of a turn.
Refresh ==
    /\ MayAct
    /\ combat = <<>>
    /\ units' = Units_refresh(units)
    /\ ops' = ops + 1
    /\ last' = [op |-> "refresh", before |-> units]
    /\ UNCHANGED <<game, terrain, combat, panicked>>
    /\ UNCHANGED walkervars

\* Cells no unit reaches: one west of the battlefield, the mountain, the water.
Targets == {to_pos(<<-1, 1>>), to_pos(<<0, 2>>), to_pos(<<2, 2>>)}

\* LiveMap::moveunit_to for a live unit, towards one of its reachable
\* destinations, towards the cell it stands on or towards a cell out of reach.  The
\* enemy's units are moved by ai.rs, which never picks an attack.
MoveUnitTo(unit_id) ==
    /\ MayAct
    /\ combat = <<>>
    /\ ~is_dead(units[unit_id])
    /\ \E run \in {reachable_pos_run(LiveMap, unit_id)} :
       \E pos \in (DOMAIN run.result) \cup Targets \cup {units[unit_id].pos} :
          /\ (units[unit_id].owner = "NotMe" /\ pos \in DOMAIN run.result)
                 => ~is_attack(LivePath_new(run.result[pos], LiveMap))
          /\ \E r \in {moveunit_to_from(LiveMap, unit_id, pos, run.result)} :
                /\ units' = r.units
                /\ combat' = r.stats
                /\ panicked' = r.panic
                /\ last' = [op |-> "moveunit_to", before |-> units,
                            unit_id |-> unit_id, pos |-> pos,
                            reachable |-> run.result,
                            enumerated |-> run.enumerated]
    /\ ops' = ops + 1
    /\ UNCHANGED <<game, terrain>>
    /\ UNCHANGED walkervars

\* LiveMap::attack with the combat that moveunit_to returned.
Attack ==
    /\ MayAct
    /\ combat # <<>>
    /\ \E to_attacker \in roll_dice(dmgrange_to_attacker(combat[1])),
          to_defender \in roll_dice(dmgrange_to_defender(combat[1])) :
          \E rolled \in {roll(combat[1], to_attacker, to_defender)} :
             /\ units' = Units_attack(units, rolled)
             /\ last' = [op |-> "attack", before |-> units, stats |-> combat[1],
                         attacker_hp |-> attacker_remaining_hp(rolled),
                         defender_hp |-> defender_remaining_hp(rolled)]
    /\ combat' = <<>>
    /\ ops' = ops + 1
    /\ UNCHANGED <<game, terrain, panicked>>
    /\ UNCHANGED walkervars

\* The player withdraws: the combat is dropped.
Withdraw ==
    /\ MayAct
    /\ combat # <<>>
    /\ combat' = <<>>
    /\ ops' = ops + 1
    /\ last' = [op |-> "withdraw", before |-> units]
    /\ UNCHANGED <<game, terrain, units, panicked>>
    /\ UNCHANGED walkervars

Next ==
    \/ Refresh
    \/ \E unit_id \in 1..Len(units) : MoveUnitTo(unit_id)
    \/ Attack
    \/ Withdraw

Spec == Init /\ [][Next]_vars

----------------------------------------------------------------------------
(* game.rs : the game loop, one key press at a time *)

\* Most key presses handled in one run.
MaxKeys == 4

\* The keys pressed: one for each direction, two of them letters that are a
\* button in the confirmation dialog as well, the keys of the commands, and a
\* key nothing is bound to.
Keys ==
    {"w", "9", "3", "2", "a", "7", "o", "m", "Enter", ".", "z", "Q", "S", "b", "x"}

direction_for_key(key) ==
    CASE key \in {"8", "w"} -> "North"
      [] key \in {"9", "e"} -> "NorthEast"
      [] key \in {"3", "d"} -> "SouthEast"
      [] key \in {"2", "s"} -> "South"
      [] key \in {"1", "a"} -> "SouthWest"
      [] key \in {"7", "q"} -> "NorthWest"
      [] OTHER -> "None"

\* A dialog is the function from the keys of its buttons to their results.
create_combat_confirm_dialog == [k \in {"a", "w"} |-> IF k = "a" THEN "Ok" ELSE "Cancel"]

\* The dialog that reports the outcome has the one button Ok.
create_combat_result_dialog == [k \in {"o"} |-> "Ok"]

\* Dialog::result_for_key: the result of the button the key belongs to.
result_for_key(dialog, key) == IF key \in DOMAIN dialog THEN dialog[key] ELSE "None"

\* The reach of a unit's bombardment: none for a unit that fights hand to hand.
range(u) == IF u.ranged_strength # 0 THEN 2 ELSE 0

my_units(us) == {i \in all_units(us) : us[i].owner = "Me"}

enemy_units(us) == {i \in all_units(us) : us[i].owner # "Me"}

\* The smallest id of a set of ids that is not empty.
FirstOf(ids) == CHOOSE i \in ids : \A j \in ids : i <= j

next_active_unit(us, after_id) ==
    LET second_half == {i \in my_units(us) : i > after_id /\ ~is_exhausted(us[i])}
        whole == {i \in my_units(us) : ~is_exhausted(us[i])}
    IN IF second_half # {} THEN FirstOf(second_half)
       ELSE IF whole # {} THEN FirstOf(whole)
       ELSE NoUnit

cycle_active_unit(g, us) ==
    LET active_index == IF g.selection.unit_id # NoUnit THEN g.selection.unit_id
                        ELSE Len(us) + 1
    IN [g EXCEPT !.selection.unit_id = next_active_unit(us, active_index)]

\* What a handler leaves behind: the game, the units, the combat carried by
\* the state CombatConfirm, and whether the program panicked on the way.
Outcome(g, us, cs, p) == [game |-> g, units |-> us, combat |-> cs, panic |-> p]

\* What Game::moveunit_to and its caller do once LiveMap::moveunit_to has
\* returned r: the next unit becomes active when the unit is exhausted, and a
\* combat returned brings up the confirmation dialog.
after_moveunit_to(g, uid, r) ==
    LET g2 == IF is_exhausted(r.units[uid]) THEN cycle_active_unit(g, r.units) ELSE g
        g3 == IF r.stats # <<>>
              THEN [g2 EXCEPT !.current_dialog = <<create_combat_confirm_dialog>>,
                              !.state = "CombatConfirm"]
              ELSE g2
    IN Outcome(g3, r.units, r.stats, r.panic)

\* Game::moveunit_to with the dialog its callers bring up.
Game_moveunit_to(g, map, target) ==
    IF g.selection.unit_id = NoUnit THEN {Outcome(g, map.units, <<>>, FALSE)}
    ELSE UNION {{after_moveunit_to(g, uid, r) : r \in {moveunit_to(m, uid, t)}} :
                   m \in {map}, uid \in {g.selection.unit_id}, t \in {target}}

\* The choice wander makes among the paths of reachable, and the move.
wander_among(unit_id, map, reachable) ==
    LET target_cost == map.units[unit_id].movements
        choices == {d \in DOMAIN reachable :
                       /\ ~is_attack(LivePath_new(reachable[d], map))
                       /\ cost(LivePath_new(reachable[d], map)) = target_cost}
    IN IF DOMAIN reachable = {} THEN {[units |-> map.units, panic |-> FALSE]}
       ELSE IF choices = {} THEN {[units |-> map.units, panic |-> TRUE]}
       ELSE {[units |-> r.units, panic |-> r.panic] :
                r \in {moveunit_to_from(map, unit_id, d, reachable) : d \in choices}}

\* ai.rs wander: every way the random choice can fall.
wander(unit_id, map) ==
    UNION {UNION {wander_among(uid, m, reachable) :
                     reachable \in {reachable_pos(m, uid)}} :
              m \in {map}, uid \in {unit_id}}

\* play_ai_turn: the enemies in ids wander one after the other.
RECURSIVE play_ai_turn(_, _)
play_ai_turn(map, ids) ==
    IF ids = {} THEN {[units |-> map.units, panic |-> FALSE]}
    ELSE UNION {IF w.panic THEN {w}
                ELSE play_ai_turn([map EXCEPT !.units = w.units],
                                  ids \ {FirstOf(ids)}) :
                   w \in wander(FirstOf(ids), map)}

new_turn(g, map) ==
    LET played == IF g.turn > 0 THEN play_ai_turn(map, enemy_units(map.units))
                  ELSE {[units |-> map.units, panic |-> FALSE]}
    IN {Outcome(cycle_active_unit([g EXCEPT !.turn = g.turn + 1],
                                  Units_refresh(a.units)),
                Units_refresh(a.units), <<>>, a.panic) : a \in played}

\* handle_normal_keypress.  Entering bombard mode takes a unit with a range;
\* the units at hand have none.
handle_normal_keypress(g, map, key) ==
    LET uid == g.selection.unit_id
        same == Outcome(g, map.units, <<>>, FALSE)
        back == [g EXCEPT !.movemode = "Normal", !.selection.pos = <<>>]
    IN CASE key = "Q" -> {Outcome([g EXCEPT !.running = FALSE], map.units, <<>>, FALSE)}
         [] key = "S" ->
              {Outcome([g EXCEPT !.movemode = IF g.movemode = "Scroll" THEN "Normal"
                                              ELSE "Scroll"],
                       map.units, <<>>, FALSE)}
         [] key = "m" ->
              IF g.movemode = "Move" THEN {Outcome(back, map.units, <<>>, FALSE)}
              ELSE IF uid # NoUnit
              THEN {Outcome([g EXCEPT !.movemode = "Move",
                                      !.selection.pos = <<map.units[uid].pos>>],
                            map.units, <<>>, FALSE)}
              ELSE {same}
         [] key = "b" ->
              IF g.movemode = "Bombard" THEN {Outcome(back, map.units, <<>>, FALSE)}
              ELSE IF uid # NoUnit /\ range(map.units[uid]) > 0
              THEN {Outcome([g EXCEPT !.movemode = "Bombard",
                                      !.selection.pos = <<map.units[uid].pos>>],
                            map.units, <<>>, FALSE)}
              ELSE {same}
         [] key = "Enter" ->
              IF g.movemode = "Move"
              THEN {Outcome([r.game EXCEPT !.movemode = "Normal",
                                           !.selection.pos = <<>>],
                            r.units, r.combat, r.panic) :
                       r \in Game_moveunit_to(g, map, g.selection.pos[1])}
              ELSE IF g.movemode = "Bombard" THEN {}
              ELSE new_turn(g, map)
         [] key = "." -> {Outcome(cycle_active_unit(g, map.units), map.units, <<>>, FALSE)}
         [] key = "z" -> {Outcome([g EXCEPT !.state = "OverheadMap"], map.units, <<>>, FALSE)}
         [] OTHER ->
              IF direction_for_key(key) = "None" THEN {same}
              ELSE IF g.movemode = "Normal"
              THEN IF uid = NoUnit THEN {same}
                   ELSE Game_moveunit_to(g, map,
                           neighbor(map.units[uid].pos, direction_for_key(key)))
              ELSE IF g.movemode = "Scroll" THEN {same}
              ELSE {Outcome([g EXCEPT !.selection.pos =
                                <<neighbor(g.selection.pos[1], direction_for_key(key))>>],
                            map.units, <<>>, FALSE)}

\* A handler that closes the result dialog on any key.
handle_messagedialog_keypress_anykey(g, us, key) ==
    IF g.current_dialog = <<>> THEN {Outcome(g, us, <<>>, TRUE)}
    ELSE {Outcome(cycle_active_unit([g EXCEPT !.state = "Normal",
                                              !.current_dialog = <<>>], us),
                  us, <<>>, FALSE)}

handle_messagedialog_keypress(g, us, key) ==
    IF g.current_dialog = <<>> THEN {Outcome(g, us, <<>>, TRUE)}
    ELSE IF result_for_key(g.current_dialog[1], key) = "Ok"
    THEN {Outcome(cycle_active_unit([g EXCEPT !.state = "Normal",
                                              !.current_dialog = <<>>], us),
                  us, <<>>, FALSE)}
    ELSE {Outcome(g, us, <<>>, FALSE)}

\* A handler that leaves the dialog up when the player withdraws.
handle_combatconfirm_keypress_stale(g, us, cs, key) ==
    IF g.current_dialog = <<>> THEN {Outcome(g, us, <<cs>>, TRUE)}
    ELSE LET r == result_for_key(g.current_dialog[1], key)
         IN IF r = "Ok"
            THEN {Outcome([g EXCEPT !.current_dialog = <<create_combat_result_dialog>>,
                                    !.state = "MessageDialog"],
                          Units_attack(us, roll(cs, to_attacker, to_defender)),
                          <<>>, FALSE) :
                     to_attacker \in roll_dice(dmgrange_to_attacker(cs)),
                     to_defender \in roll_dice(dmgrange_to_defender(cs))}
            ELSE IF r = "Cancel"
            THEN {Outcome([g EXCEPT !.state = "Normal"], us, <<>>, FALSE)}
            ELSE {Outcome(g, us, <<cs>>, FALSE)}

\* handle_combatconfirm_keypress; cs is the combat the state carries.
handle_combatconfirm_keypress(g, us, cs, key) ==
    IF g.current_dialog = <<>> THEN {Outcome(g, us, <<cs>>, TRUE)}
    ELSE LET r == result_for_key(g.current_dialog[1], key)
         IN IF r = "Ok"
            THEN {Outcome([g EXCEPT !.current_dialog = <<create_combat_result_dialog>>,
                                    !.state = "MessageDialog"],
                          Units_attack(us, roll(cs, to_attacker, to_defender)),
                          <<>>, FALSE) :
                     to_attacker \in roll_dice(dmgrange_to_attacker(cs)),
                     to_defender \in roll_dice(dmgrange_to_defender(cs))}
            ELSE IF r = "Cancel"
            THEN {Outcome([g EXCEPT !.state = "Normal", !.current_dialog = <<>>],
                          us, <<>>, FALSE)}
            ELSE {Outcome(g, us, <<cs>>, FALSE)}

handle_overheadmap_keypress(g, us, key) ==
    IF key = "z" THEN {Outcome([g EXCEPT !.state = "Normal"], us, <<>>, FALSE)}
    ELSE {Outcome(g, us, <<>>, FALSE)}

\* The game as Game::new makes it, the units of a line-up added.
GameInit ==
    /\ NoWalker
    /\ game = Game_new
    /\ terrain = Battlefield
    /\ units \in Lineups
    /\ combat = <<>>
    /\ panicked = FALSE
    /\ ops = 0
    /\ last = [op |-> "none"]

\* What the dialog on display, if any, makes of the key.
DialogResult(key) ==
    IF game.current_dialog = <<>> THEN "None"
    ELSE result_for_key(game.current_dialog[1], key)

\* handle_events can take an event: the loop runs and the game is in state.
Awaiting(state) ==
    /\ game.running
    /\ ~panicked
    /\ ops < MaxKeys
    /\ game.state = state

\* handle_events got a key; o is what the handler of the state left behind.
Handled(key, o) ==
    /\ game' = o.game
    /\ units' = o.units
    /\ combat' = o.combat
    /\ panicked' = o.panic
    /\ ops' = ops + 1
    /\ last' = [op |-> "key", result |-> DialogResult(key), before |-> units,
                game |-> game, stats |-> combat]
    /\ UNCHANGED terrain
    /\ UNCHANGED walkervars

KeyNormal ==
    /\ Awaiting("Normal")
    /\ \E key \in Keys : \E o \in handle_normal_keypress(game, LiveMap, key) :
          Handled(key, o)

KeyMessageDialog ==
    /\ Awaiting("MessageDialog")
    /\ \E key \in Keys : \E o \in handle_messagedialog_keypress(game, units, key) :
          Handled(key, o)

KeyCombatConfirm ==
    /\ Awaiting("CombatConfirm")
    /\ \E key \in Keys :
          \E o \in handle_combatconfirm_keypress(game, units, combat[1], key) :
             Handled(key, o)

KeyOverheadMap ==
    /\ Awaiting("OverheadMap")
    /\ \E key \in Keys : \E o \in handle_overheadmap_keypress(game, units, key) :
          Handled(key, o)

\* get_event gave something other than a key: handle_events returns false.
NoKey ==
    /\ \E state \in {game.state} : Awaiting(state)
    /\ game' = [game EXCEPT !.running = FALSE]
    /\ ops' = ops + 1
    /\ last' = [op |-> "event", before |-> units, game |-> game, stats |-> combat]
    /\ UNCHANGED <<terrain, units, combat, panicked>>
    /\ UNCHANGED walkervars

GameNext ==
    KeyNormal \/ KeyMessageDialog \/ KeyCombatConfirm \/ KeyOverheadMap \/ NoKey

SpecGame == GameInit /\ [][GameNext]_vars

----------------------------------------------------------------------------
(* One unit among hills *)

\* Maps of three columns and two rows, every cell grassland or hill.
HillMaps ==
    {TerrainMap_new(3, 2, <<a, b, c, d, e, f>>) :
        a \in {"Grassland", "Hill"}, b \in {"Grassland", "Hill"},
        c \in {"Grassland", "Hill"}, d \in {"Grassland", "Hill"},
        e \in {"Grassland", "Hill"}, f \in {"Grassland", "Hill"}}

\* One unit, refreshed at the start of its turn, on the top row of a map.
HillInit ==
    /\ NoWalker
    /\ game = Game_new
    /\ terrain \in HillMaps
    /\ units \in {<<Unit_refresh(Unit_new("Me", to_pos(<<x, 0>>)))>> : x \in {0, 1}}
    /\ combat = <<>>
    /\ panicked = FALSE
    /\ ops = 0
    /\ last = [op |-> "none"]

HillStep == Refresh \/ MoveUnitTo(1)

SpecHill == HillInit /\ [][HillStep]_vars

----------------------------------------------------------------------------
(* One unit, moved step by step *)

\* The terrains move_ can be handed.
Terrains == {Terrain_all[i] : i \in 1..Len(Terrain_all)} \cup {"OutOfBounds"}

StepInit ==
    /\ NoWalker
    /\ game = Game_new
    /\ terrain = TerrainMap_new(0, 0, <<>>)
    /\ units = <<Unit_new("Me", Pos_origin)>>
    /\ combat = <<>>
    /\ panicked = FALSE
    /\ ops = 0
    /\ last = [op |-> "none"]

\* Unit::refresh at the start of a turn.
StepRefresh ==
    /\ ops < MaxOps
    /\ units' = <<Unit_refresh(units[1])>>
    /\ ops' = ops + 1
    /\ last' = [op |-> "refresh", before |-> units[1]]
    /\ UNCHANGED <<game, terrain, combat, panicked>>
    /\ UNCHANGED walkervars

\* Unit::move_ in any direction, told any terrain.
StepMove ==
    /\ ops < MaxOps
    /\ \E i \in 1..DIRECTION_COUNT, t \in Terrains :
          \E r \in {move_(units[1], Direction_all[i], t)} :
             /\ units' = <<r.unit>>
             /\ last' = [op |-> "move_", before |-> units[1], direction |-> i,
                         terrain |-> t, moved |-> r.moved]
    /\ ops' = ops + 1
    /\ UNCHANGED <<game, terrain, combat, panicked>>
    /\ UNCHANGED walkervars

StepNext == StepRefresh \/ StepMove

SpecStep == StepInit /\ [][StepNext]_vars

----------------------------------------------------------------------------
(* Units around a unit *)

\* The cells of the battlefield a unit can stand on, but for the middle one.
OuterCells ==
    {to_pos(<<0, 0>>), to_pos(<<1, 0>>), to_pos(<<2, 0>>),
     to_pos(<<0, 1>>), to_pos(<<2, 1>>), to_pos(<<1, 2>>)}

\* A unit as it is in the middle of a game, on pos, alive or fallen.
Placed(owner, pos, hp) == [Veteran(owner, <<0, 0>>) EXCEPT !.pos = pos, !.hp = hp]

\* No two live units stand on the same cell.
LiveApart(us) ==
    \A i \in all_units(us), j \in all_units(us) : i # j => us[i].pos # us[j].pos

\* One unit in the middle, two live units and a live or a dead one around it.
Gatherings ==
    {us \in {<<Veteran(o1, <<1, 1>>), Placed(o2, p2, 30), Placed(o3, p3, 30),
               Placed(o4, p4, h4)>> :
                 o1 \in {"Me", "NotMe"}, o2 \in {"Me", "NotMe"},
                 o3 \in {"Me", "NotMe"}, o4 \in {"Me", "NotMe"},
                 p2 \in OuterCells, p3 \in OuterCells, p4 \in OuterCells,
                 h4 \in {0, 30}} :
        LiveApart(us)}

FlankInit ==
    /\ NoWalker
    /\ game = Game_new
    /\ terrain = Battlefield
    /\ units \in Gatherings
    /\ combat = <<>>
    /\ panicked = FALSE
    /\ ops = 0
    /\ last = [op |-> "none"]

\* get_flanking_modifier against any live unit.
FlankAgainst ==
    /\ last.op = "none"
    /\ \E against_id \in all_units(units) :
          last' = [op |-> "get_flanking_modifier", against_id |-> against_id,
                   modifier |-> get_flanking_modifier(LiveMap, against_id)]
    /\ UNCHANGED <<game, terrain, units, combat, panicked, ops>>
    /\ UNCHANGED walkervars

FlankStep == FlankAgainst

SpecFlank == FlankInit /\ [][FlankStep]_vars

----------------------------------------------------------------------------
(* Positions, converted *)

\* While positions are converted, combat keeps the position given and the
\* position it was converted to on the way.
OffsetPositions ==
    {<<x, y>> : x \in (-CoordReach)..CoordReach, y \in (-CoordReach)..CoordReach}

\* Cube positions: x + y + z = 0.
CubePositions ==
    {<<x, (-x) - z, z>> :
        x \in (-CoordReach)..CoordReach, z \in (-CoordReach)..CoordReach}

CoordInit ==
    /\ NoWalker
    /\ game = Game_new
    /\ terrain = TerrainMap_new(0, 0, <<>>)
    /\ units = <<>>
    /\ combat = <<>>
    /\ panicked = FALSE
    /\ ops = 0
    /\ last \in {[op |-> "none", from |-> "OffsetPos", value |-> o] :
                    o \in OffsetPositions}
              \cup {[op |-> "none", from |-> "Pos", value |-> p] :
                       p \in CubePositions}

\* o.to_pos().to_offset_pos()
OffsetRoundTrip ==
    /\ last.op = "none"
    /\ last.from = "OffsetPos"
    /\ last' = [last EXCEPT !.op = "round_trip",
                            !.value = to_offset_pos(to_pos(last.value))]
    /\ combat' = <<last.value, to_pos(last.value)>>
    /\ UNCHANGED <<game, terrain, units, panicked, ops>>
    /\ UNCHANGED walkervars

\* p.to_offset_pos().to_pos()
PosRoundTrip ==
    /\ last.op = "none"
    /\ last.from = "Pos"
    /\ last' = [last EXCEPT !.op = "round_trip",
                            !.value = to_pos(to_offset_pos(last.value))]
    /\ combat' = <<last.value, to_offset_pos(last.value)>>
    /\ UNCHANGED <<game, terrain, units, panicked, ops>>
    /\ UNCHANGED walkervars

CoordStep == OffsetRoundTrip \/ PosRoundTrip

SpecCoord == CoordInit /\ [][CoordStep]_vars

----------------------------------------------------------------------------
(* The PathWalker driven until it returns None *)

\* Largest max_depth of a walker that is driven to its end.
TermDepth == 2

\* The number of direction sequences of 1..max_depth directions.
DirectionSequences(max_depth) == SumPow6(1, max_depth)

TermInit ==
    /\ NoMap
    /\ walker \in {PathWalker_new(Pos_origin, d) : d \in 0..TermDepth}
    /\ yielded = <<>>
    /\ calls = "new"
    /\ prev = [path |-> <<>>, calls |-> "new"]
    /\ seen = {}
    /\ count = 0
    /\ exhausted = FALSE

\* The loop `while let Some(path) = walker.next()`: next() is called until it
\* returns None.  count is the number of calls that returned a path.
TermNext ==
    /\ ~exhausted
    /\ count <= DirectionSequences(walker.max_depth)
    /\ \E r \in {PathWalker_next(walker)} :
         /\ walker' = r.w
         /\ yielded' = r.result
         /\ exhausted' = (r.result = <<>>)
         /\ count' = IF r.result = <<>> THEN count ELSE count + 1
    /\ calls' = "next"
    /\ UNCHANGED <<prev, seen>>
    /\ UNCHANGED mapvars

\* The body of the loop calls backoff() on the path it was handed, or does not.
TermBackoff ==
    /\ ~exhausted
    /\ calls = "next"
    /\ walker' = backoff(walker)
    /\ calls' = "backoff"
    /\ UNCHANGED <<yielded, prev, seen, count, exhausted>>
    /\ UNCHANGED mapvars

TermStep == TermNext \/ TermBackoff

\* The loop does nothing between two calls of next() but its body, which
\* returns: a call of next() that can be made is made.
SpecTerm == TermInit /\ [][TermStep]_vars /\ WF_vars(TermNext)

----------------------------------------------------------------------------
(* Positions, derived from one another *)

\* The max_depth of the walker started from the first position.
WalkDepth == 2

\* Factors of amplify lie in -MaxFactor..MaxFactor.
MaxFactor == 2

\* Positions to start from and to translate by.
PosSeeds ==
    {Pos_origin} \cup {to_pos(<<x, y>>) : x \in {-3, -1, 0, 2}, y \in {-1, 0, 2}}

PosInit ==
    /\ terrain = TerrainMap_new(0, 0, <<>>)
    /\ game = Game_new
    /\ units = <<>>
    /\ combat = <<>>
    /\ panicked = FALSE
    /\ ops = 0
    /\ last \in {[op |-> "new", value |-> p] : p \in PosSeeds}
    /\ walker = PathWalker_new(last.value, WalkDepth)
    /\ yielded = <<>>
    /\ calls = "new"
    /\ prev = [path |-> <<>>, calls |-> "new"]
    /\ seen = {}
    /\ count = 0
    /\ exhausted = FALSE

\* The position becomes value through operation op; the walker is dropped.
Derive(op, value) ==
    /\ ops < MaxOps
    /\ ops' = ops + 1
    /\ last' = [op |-> op, value |-> value]
    /\ walker' = PathWalker_new(Pos_origin, 0)
    /\ yielded' = <<>>
    /\ calls' = "new"
    /\ exhausted' = TRUE
    /\ UNCHANGED <<prev, seen, count>>
    /\ UNCHANGED <<game, terrain, units, combat, panicked>>

PosNeighbor ==
    \E i \in 1..DIRECTION_COUNT :
        Derive("neighbor", neighbor(last.value, Direction_all[i]))

PosAround ==
    \E i \in 1..DIRECTION_COUNT : Derive("around", around(last.value)[i])

PosTranslate == \E other \in PosSeeds : Derive("translate", translate(last.value, other))

PosAmplify ==
    \E factor \in (-MaxFactor)..MaxFactor :
        Derive("amplify", amplify(last.value, factor))

PosNeg == Derive("neg", neg(last.value))

\* The walker started from the first position returns its next path, and the
\* position becomes the path's end.
PosWalked ==
    /\ ops = 0
    /\ ~exhausted
    /\ \E n \in {PathWalker_next(walker)} :
         /\ walker' = n.w
         /\ yielded' = n.result
         /\ calls' = "next"
         /\ exhausted' = (n.result = <<>>)
         /\ last' = IF n.result = <<>> THEN last
                    ELSE [op |-> "walked", value |-> n.result[Len(n.result)]]
    /\ UNCHANGED <<prev, seen, count>>
    /\ UNCHANGED <<game, terrain, units, combat, panicked, ops>>

PosStep ==
    PosNeighbor \/ PosAround \/ PosTranslate \/ PosAmplify \/ PosNeg \/ PosWalked

SpecPos == PosInit /\ [][PosStep]_vars

----------------------------------------------------------------------------
(* One combat, rolled *)

\* Hit points the two units enter the combat with.
HpSamples == {1, 30, 45, 60, 100}

Combatant(hp) == [Unit_new("Me", Pos_origin) EXCEPT !.hp = hp]

\* A unit of a type that attacks at range, with the strength of the others.
Archer(hp) == [Combatant(hp) EXCEPT !.ranged_strength = 8]

CombatInit ==
    /\ NoWalker
    /\ game = Game_new
    /\ terrain = TerrainMap_new(0, 0, <<>>)
    /\ units \in {<<attacker, Combatant(d)>> :
                     attacker \in {Combatant(a) : a \in HpSamples}
                                     \cup {Archer(a) : a \in HpSamples},
                     d \in HpSamples}
    /\ panicked = FALSE
    /\ ops = 0
    /\ last = [op |-> "none"]
    /\ combat \in
         {<<CombatStats_new(1, units[1], am, 2, units[2], dm)>> :
             am \in {<<>>, <<Modifier_new(10, "Flanking")>>},
             dm \in {<<>>, <<Modifier_new(25, "Terrain")>>}}

\* CombatStats::roll, once, with any two values the dice can give.
CombatRoll ==
    /\ last.op = "none"
    /\ \E to_attacker \in roll_dice(dmgrange_to_attacker(combat[1])),
          to_defender \in roll_dice(dmgrange_to_defender(combat[1])) :
          /\ combat' = <<roll(combat[1], to_attacker, to_defender)>>
          /\ last' = [op |-> "roll", stats |-> combat[1],
                      to_attacker |-> to_attacker, to_defender |-> to_defender]
    /\ UNCHANGED <<game, terrain, units, panicked, ops>>
    /\ UNCHANGED walkervars

CombatStep == CombatRoll

SpecCombat == CombatInit /\ [][CombatStep]_vars

----------------------------------------------------------------------------
(* Properties of the PathWalker *)

\* C2 as stated: a walk without pruning, from any origin and for any max_depth,
\* has returned 6^0 + ... + 6^max_depth paths when next() first returns None.
C2_CountFromLengthZero ==
    exhausted => count = SumPow6(0, walker.max_depth)

\* C2, amended: a walk without pruning returns 6^1 + ... + 6^max_depth paths
\* before next() first returns None: pairwise distinct, each starting at the
\* origin, of 1 to max_depth steps, consecutive positions being hex neighbours
\* (they are exactly the paths of 1..max_depth steps from the origin).
C2_CountFromLengthOne ==
    /\ Cardinality(seen) = count
    /\ \A p \in seen :
          /\ p[1] = walker.origin
          /\ steps(p) >= 1 /\ steps(p) <= walker.max_depth
          /\ IsValidPath(p)
    /\ exhausted =>
          /\ count = SumPow6(1, walker.max_depth)
          /\ seen = AllPaths(walker.origin, walker.max_depth)

C2_Witness ==
    exhausted /\ walker.max_depth = 2 /\ count = 42

\* C11: without pruning, the k-th path next() returns is the k-th path of the
\* depth-first pre-order of the tree of paths of 1..max_depth steps, children
\* taken in the order North, NorthEast, SouthEast, South, SouthWest,
\* NorthWest, which depends on the origin and max_depth only; None comes when
\* that order is used up.  So every path returned comes after the paths it
\* extends, after its siblings in earlier directions, and is returned once.
C11_YieldsInPreOrder ==
    LET order == UnprunedOrder[walker.origin][walker.max_depth]
    IN /\ count <= Len(order)
       /\ (calls = "next" /\ yielded # <<>>) => yielded = order[count]
       /\ exhausted => count = Len(order)
       /\ Cardinality(seen) = count
       /\ \A p \in seen :
             /\ \A k \in 2..(Len(p) - 1) : SubSeq(p, 1, k) \in seen
             /\ \A i \in 1..DIRECTION_COUNT :
                   LET sibling == Extended(SubSeq(p, 1, Len(p) - 1), i)
                   IN i < StepRank(p[Len(p) - 1], p[Len(p)]) => sibling \in seen

\* The walk came back from a path of full depth to the next sibling of its
\* parent.
C11_Witness ==
    /\ calls = "next"
    /\ walker.max_depth >= 2
    /\ steps(prev.path) = walker.max_depth
    /\ yielded # <<>>
    /\ steps(yielded) = walker.max_depth - 1

\* C14: when get_current_path() is called on a walker whose next() has not
\* returned a path yet, the program panics instead of answering with a path.
C14_CurrentPathBeforeNextPanics ==
    (last.op = "get_current_path" /\ count = 0) => panicked

\* q is the path that follows p in order when, if skip, the extensions of p are
\* left out (<<>> when no path follows).
FollowsInOrder(p, q, skip, order) ==
    /\ \E k \in 1..Len(order) : order[k] = p
    /\ LET i == CHOOSE k \in 1..Len(order) : order[k] = p
           later == {k \in (i + 1)..Len(order) :
                        ~(skip /\ IsProperPrefix(p, order[k]))}
       IN IF later = {} THEN q = <<>>
          ELSE q = order[CHOOSE k \in later : \A j \in later : k <= j]

\* C3: when backoff() is called right after next() returned P, the next call
\* returns the first path after P in the unpruned order that does not extend P
\* (None if there is none), so exactly the extensions of P are skipped; a call
\* of next() that follows a returned path without backoff() returns the very
\* next path of the unpruned order, so siblings, the siblings of ancestors and
\* their subtrees still come, in the same order.
C3_PruneSkipsExactlyDescendants ==
    (calls = "next" /\ prev.path # <<>>) =>
        FollowsInOrder(prev.path, yielded, prev.calls = "backoff",
                       UnprunedOrder[walker.origin][walker.max_depth])

\* A pruned path that had extensions, and the traversal went on to a sibling.
C3_Witness ==
    /\ calls = "next" /\ prev.calls = "backoff"
    /\ steps(prev.path) < walker.max_depth
    /\ yielded # <<>>
    /\ Len(yielded) = Len(prev.path)

----------------------------------------------------------------------------
(* Properties of the live map *)

\* The map as it was when the last operation started.
Before == [terrain |-> terrain, units |-> last.before]

\* The unit the last moveunit_to was called for, as it was before the call.
Mover == last.before[last.unit_id]

\* Movement cost of a path: the costs of the terrain of every cell after the
\* first one, added up.
RECURSIVE PathCostFrom(_, _)
PathCostFrom(path, i) ==
    IF i > Len(path) THEN 0
    ELSE (IF get_terrain(terrain, path[i]) = "Hill" THEN 2 ELSE 1)
             + PathCostFrom(path, i + 1)

PathCost(path) == PathCostFrom(path, 2)

\* cell is in the zone of control of an enemy of owner: a live unit of another
\* player stands on it or on one of the six cells around it.
UnderEnemyZoc(us, owner, cell) ==
    \E i \in 1..Len(us) :
        /\ us[i].hp > 0
        /\ us[i].owner # owner
        /\ (us[i].pos = cell \/ IsHexNeighbor(us[i].pos, cell))

\* Two consecutive cells among the first upto cells of path are both in an
\* enemy zone of control of the mover.
CrossesZoc(path, upto) ==
    \E i \in 1..(upto - 1) :
        /\ UnderEnemyZoc(last.before, Mover.owner, path[i])
        /\ UnderEnemyZoc(last.before, Mover.owner, path[i + 1])

\* C4: for every destination of the map reachable_pos returns, the stored path
\* costs no more than any path to that destination that the walker returned
\* during the call; and among the reachable paths of that least cost it is the
\* one returned first (an entry is replaced only by a strictly cheaper path).
C4_StoredPathIsCheapest ==
    last.op = "moveunit_to" =>
        \A d \in DOMAIN last.reachable :
            LET stored == last.reachable[d]
            IN /\ stored \in last.enumerated
               /\ PosPath_to(stored) = d
               /\ \A q \in last.enumerated :
                     PosPath_to(q) = d =>
                        /\ PathCost(stored) <= PathCost(q)
                        /\ (/\ q # stored
                            /\ PathCost(q) = PathCost(stored)
                            /\ is_reachable(LivePath_new(q, Before)))
                               => PreLess(stored, q)

\* A costlier path to a destination came first and was replaced.
C4_Witness ==
    /\ last.op = "moveunit_to"
    /\ \E d \in DOMAIN last.reachable :
          \E q \in last.enumerated :
             /\ PosPath_to(q) = d
             /\ is_reachable(LivePath_new(q, Before))
             /\ PreLess(q, last.reachable[d])
             /\ PathCost(q) > PathCost(last.reachable[d])

\* C5: every destination of the map reachable_pos returns is free of units or
\* holds an enemy of the mover, and in the latter case the stored path is one
\* step long or its second-to-last cell is free of units; the assertions of
\* moveunit_to never fail.
C5_AttackPathsAreClear ==
    /\ ~panicked
    /\ last.op = "moveunit_to" =>
          \A d \in DOMAIN last.reachable :
              LET occupant == unit_at_pos(last.before, d)
                  path == last.reachable[d]
              IN /\ occupant # NoUnit => last.before[occupant].owner # Mover.owner
                 /\ occupant # NoUnit =>
                       \/ steps(path) = 1
                       \/ unit_at_pos(last.before, before_last(path)) = NoUnit

\* C6: no path of the map reachable_pos returns has two consecutive cells in an
\* enemy zone of control among the cells before its destination; a path the
\* walker returned that has two such cells is not could_be_reachable, nor is
\* any path one step longer, and no path in the map and no other path the
\* walker returned extends it.
C6_NoZocCrossingBeforeDestination ==
    last.op = "moveunit_to" =>
        /\ \A d \in DOMAIN last.reachable :
              ~CrossesZoc(last.reachable[d], Len(last.reachable[d]) - 1)
        /\ \A q \in last.enumerated :
              CrossesZoc(q, Len(q) - 1) =>
                 /\ ~could_be_reachable(LivePath_new(q, Before))
                 /\ \A i \in 1..DIRECTION_COUNT :
                       ~could_be_reachable(LivePath_new(Extended(q, i), Before))
                 /\ \A r \in last.enumerated : ~IsProperPrefix(q, r)
                 /\ \A d \in DOMAIN last.reachable :
                       ~IsProperPrefix(q, last.reachable[d])

\* The walker returned a path that crosses two zone-of-control cells, and the
\* unit still has destinations.
C6_Witness ==
    /\ last.op = "moveunit_to"
    /\ DOMAIN last.reachable # {}
    /\ \E q \in last.enumerated : CrossesZoc(q, Len(q) - 1)

\* C7: after moveunit_to towards a reachable destination that no unit stands
\* on, the unit's movements are 0 when the stored path has two consecutive
\* cells in an enemy zone of control (destination included), and otherwise
\* what it had less the cost of the path, but not less than 0.
C7_MoveSpendsMovements ==
    (/\ last.op = "moveunit_to"
     /\ last.pos \in DOMAIN last.reachable
     /\ unit_at_pos(last.before, last.pos) = NoUnit) =>
        LET path == last.reachable[last.pos]
        IN units[last.unit_id].movements =
              IF CrossesZoc(path, Len(path)) THEN 0
              ELSE Max(0, Mover.movements - PathCost(path))

\* A move along the enemy's zone of control took movements the terrain alone
\* would have left.
C7_Witness ==
    /\ last.op = "moveunit_to"
    /\ last.pos \in DOMAIN last.reachable
    /\ unit_at_pos(last.before, last.pos) = NoUnit
    /\ CrossesZoc(last.reachable[last.pos], Len(last.reachable[last.pos]))
    /\ PathCost(last.reachable[last.pos]) < Mover.movements
    /\ units[last.unit_id].movements = 0

\* C8: after Units::attack the attacker has 0 movements, both units have the
\* remaining HP of the rolled combat, the defender is where it was, and the
\* attacker is on the defender's tile if the defender's remaining HP is 0 and
\* where it was otherwise.
C8_AttackOutcome ==
    last.op = "attack" =>
        LET a == last.stats.attacker_id
            d == last.stats.defender_id
        IN /\ units[a].movements = 0
           /\ units[a].hp = last.attacker_hp
           /\ units[d].hp = last.defender_hp
           /\ units[d].pos = last.before[d].pos
           /\ units[a].pos = IF last.defender_hp = 0 THEN last.before[d].pos
                             ELSE last.before[a].pos

\* An attack that killed the defender, and one the defender survived, are
\* told apart by where the attacker ends; this is the kill.
C8_Witness ==
    /\ last.op = "attack"
    /\ last.defender_hp = 0
    /\ last.attacker_hp > 0
    /\ units[last.stats.attacker_id].pos = last.before[last.stats.defender_id].pos
    /\ last.before[last.stats.attacker_id].pos
           # last.before[last.stats.defender_id].pos

\* C10: a walker built with max_depth 0 returns None at every call of next(),
\* also after backoff(); reachable_pos for a unit that has 0 movements goes
\* through no path and returns an empty map.
C10_NoMovementsNoPaths ==
    (last.op = "moveunit_to" /\ Mover.movements = 0) =>
        LET w0 == PathWalker_new(Mover.pos, Mover.movements)
            n1 == PathWalker_next(w0)
            n2 == PathWalker_next(n1.w)
            n3 == PathWalker_next(backoff(n2.w))
        IN /\ n1.result = <<>> /\ n2.result = <<>> /\ n3.result = <<>>
           /\ last.enumerated = {}
           /\ last.reachable = EmptyMap

\* moveunit_to was called for a unit that had spent its movements.
C10_Witness ==
    /\ last.op = "moveunit_to"
    /\ Mover.movements = 0
    /\ Mover.hp > 0

\* C12: the map reachable_pos returns for a unit never has the unit's own
\* position among its destinations.
C12_OwnPositionNotReachable ==
    last.op = "moveunit_to" => Mover.pos \notin DOMAIN last.reachable

\* The walker returned a passable path that comes back to the unit's position.
C12_Witness ==
    /\ last.op = "moveunit_to"
    /\ DOMAIN last.reachable # {}
    /\ \E q \in last.enumerated :
          /\ PosPath_to(q) = Mover.pos
          /\ could_be_reachable(LivePath_new(q, Before))

\* p lies outside the rectangle of the terrain map (columns 0..width-1, rows
\* 0..height-1; a cell of column x >= 0 is in row z + x/2).
OutsideMap(p) ==
    \/ p[1] < 0
    \/ p[1] >= terrain.width
    \/ p[3] + (p[1] \div 2) < 0
    \/ p[3] + (p[1] \div 2) >= terrain.height

\* Reach of the positions looked at around the map.
Margin == 2

\* The cube positions of the map and of a margin around it.
CellsAround ==
    {<<x, (-x) - z, z>> :
        x \in (-Margin)..(terrain.width + Margin),
        z \in (-(terrain.width + 2 * Margin))..(terrain.height + Margin)}

\* C13: every position outside the bounds of the terrain map has a terrain
\* that is not passable, and no path of the map reachable_pos returns has a
\* cell, destination or not, outside the map or on a mountain or on water.
C13_NoImpassableCellOnStoredPath ==
    last.op = "moveunit_to" =>
        /\ \A p \in CellsAround :
              OutsideMap(p) => ~is_passable(get_terrain(terrain, p))
        /\ \A d \in DOMAIN last.reachable :
              \A i \in 1..Len(last.reachable[d]) :
                 /\ ~OutsideMap(last.reachable[d][i])
                 /\ get_terrain(terrain, last.reachable[d][i])
                        \notin {"Mountain", "Water"}

\* The walker went outside the map, onto a mountain and onto water, and the
\* unit still has destinations.
C13_Witness ==
    /\ last.op = "moveunit_to"
    /\ DOMAIN last.reachable # {}
    /\ \E q \in last.enumerated : OutsideMap(PosPath_to(q))
    /\ \E q \in last.enumerated :
          get_terrain(terrain, PosPath_to(q)) = "Mountain"
    /\ \E q \in last.enumerated :
          get_terrain(terrain, PosPath_to(q)) = "Water"

----------------------------------------------------------------------------
(* Properties of a unit's steps *)

\* C15: move_ returns false and leaves position and movements as they were
\* when the unit has 0 movements or the terrain is a mountain, water or out of
\* bounds; otherwise it returns true, the unit is on the adjacent cell in the
\* direction given and its movements are what it had less the cost of the
\* terrain (2 for a hill, 1 otherwise), but not less than 0.
C15_MoveStep ==
    last.op = "move_" =>
        LET before == last.before
            after == units[1]
            c == IF last.terrain = "Hill" THEN 2 ELSE 1
        IN IF before.movements = 0
              \/ last.terrain \in {"Mountain", "Water", "OutOfBounds"}
           THEN /\ ~last.moved
                /\ after = before
           ELSE /\ last.moved
                /\ after.pos = <<before.pos[1] + HexVectors[last.direction][1],
                                 before.pos[2] + HexVectors[last.direction][2],
                                 before.pos[3] + HexVectors[last.direction][3]>>
                /\ after.movements = Max(0, before.movements - c)
                /\ after.hp = before.hp /\ after.owner = before.owner

\* A unit with one movement left stepped onto a hill.
C15_Witness ==
    /\ last.op = "move_"
    /\ last.before.movements = 1
    /\ last.terrain = "Hill"
    /\ last.moved
    /\ units[1].movements = 0

----------------------------------------------------------------------------
(* Properties of combat *)

TentativeAttackerHp == last.stats.attacker_starting_hp - last.to_attacker

TentativeDefenderHp == last.stats.defender_starting_hp - last.to_defender

\* C1: after roll() on two units that both have HP > 0, the attacker's and the
\* defender's remaining HP are never both 0.
C1_NeverBothDead ==
    (last.op = "roll" /\ last.stats.attacker_starting_hp > 0
                      /\ last.stats.defender_starting_hp > 0) =>
        ~(attacker_remaining_hp(combat[1]) = 0 /\ defender_remaining_hp(combat[1]) = 0)

\* C9: when the rolled damages take both units below zero, the unit whose
\* tentative HP is the higher one ends with exactly 1 HP and the other with 0.
C9_LessDeadSurvivesAtOne ==
    (last.op = "roll" /\ TentativeAttackerHp < 0 /\ TentativeDefenderHp < 0) =>
        /\ TentativeAttackerHp > TentativeDefenderHp =>
              /\ attacker_remaining_hp(combat[1]) = 1
              /\ defender_remaining_hp(combat[1]) = 0
        /\ TentativeDefenderHp > TentativeAttackerHp =>
              /\ defender_remaining_hp(combat[1]) = 1
              /\ attacker_remaining_hp(combat[1]) = 0

C9_Witness ==
    /\ last.op = "roll"
    /\ TentativeAttackerHp < 0 /\ TentativeDefenderHp < TentativeAttackerHp
    /\ attacker_remaining_hp(combat[1]) = 1

\* C16: when the attacker's ranged strength is not 0 the combat is ranged and
\* the damage range to the attacker is [0, 0]; after roll() the attacker's
\* remaining HP is its starting HP, whatever was rolled against the defender.
C16_RangedAttackerUnharmed ==
    units[1].ranged_strength # 0 =>
        /\ combat[1].ranged
        /\ dmgrange_to_attacker(combat[1]) = <<0, 0>>
        /\ last.op = "roll" =>
              /\ last.to_attacker = 0
              /\ attacker_remaining_hp(combat[1]) = units[1].hp

\* A ranged attack that killed the defender.
C16_Witness ==
    /\ last.op = "roll"
    /\ units[1].ranged_strength # 0
    /\ defender_remaining_hp(combat[1]) = 0
    /\ attacker_remaining_hp(combat[1]) = units[1].hp

\* C17: in a melee combat of two units of equal strength, both at 100 HP and
\* without modifiers, the damage range to the attacker and the damage range
\* to the defender are both [40, 70].
C17_EqualFightRanges ==
    (/\ ~combat[1].ranged
     /\ combat[1].attacker_base_strength = combat[1].defender_base_strength
     /\ combat[1].attacker_modifiers = <<>>
     /\ combat[1].defender_modifiers = <<>>
     /\ combat[1].attacker_starting_hp = 100
     /\ combat[1].defender_starting_hp = 100) =>
        /\ dmgrange_to_attacker(combat[1]) = <<40, 70>>
        /\ dmgrange_to_defender(combat[1]) = <<40, 70>>

\* Such a combat was rolled, and the dice gave the two ends of the range.
C17_Witness ==
    /\ last.op = "roll"
    /\ ~combat[1].ranged
    /\ combat[1].attacker_modifiers = <<>>
    /\ combat[1].defender_modifiers = <<>>
    /\ combat[1].attacker_starting_hp = 100
    /\ combat[1].defender_starting_hp = 100
    /\ last.to_attacker = 40
    /\ last.to_defender = 70

----------------------------------------------------------------------------
(* Properties of the modifiers *)

\* Live units on the six cells around the unit against_id whose owner is not
\* that unit's owner.
Flankers(against_id) ==
    {i \in 1..Len(units) :
        /\ units[i].hp > 0
        /\ IsHexNeighbor(units[against_id].pos, units[i].pos)
        /\ units[i].owner # units[against_id].owner}

\* C18: the flanking modifier against a unit O is (n - 1) * 10, n being the
\* number of live units on the six cells around O whose owner is not O's, and
\* there is no flanking modifier when n <= 1.
C18_FlankingModifier ==
    last.op = "get_flanking_modifier" =>
        LET n == Cardinality(Flankers(last.against_id))
        IN last.modifier =
              IF n <= 1 THEN <<>>
              ELSE <<[amount |-> (n - 1) * 10, modtype |-> "Flanking"]>>

\* Three units flank the unit: the modifier is 20.
C18_Witness ==
    /\ last.op = "get_flanking_modifier"
    /\ Cardinality(Flankers(last.against_id)) = 3
    /\ last.modifier = <<[amount |-> 20, modtype |-> "Flanking"]>>

\* The modifiers of the sequence that are terrain modifiers.
TerrainModifiers(modifiers) ==
    SelectSeq(modifiers, LAMBDA m : m.modtype = "Terrain")

\* C19: in the combat moveunit_to returns, the attacker has no terrain
\* modifier, whatever it stands on, and the defender has one terrain modifier
\* of 25 when it stands on a hill and none on the other terrains.
C19_TerrainModifierForDefenderOnly ==
    (last.op = "moveunit_to" /\ combat # <<>>) =>
        LET cs == combat[1]
            under_defender == get_terrain(terrain, units[cs.defender_id].pos)
        IN /\ TerrainModifiers(cs.attacker_modifiers) = <<>>
           /\ TerrainModifiers(cs.defender_modifiers) =
                 IF under_defender = "Hill"
                 THEN <<[amount |-> 25, modtype |-> "Terrain"]>>
                 ELSE <<>>

\* An attack from the hill.
C19_Witness ==
    /\ last.op = "moveunit_to"
    /\ combat # <<>>
    /\ get_terrain(terrain, units[combat[1].attacker_id].pos) = "Hill"
    /\ TerrainModifiers(combat[1].attacker_modifiers) = <<>>

----------------------------------------------------------------------------
(* Properties of the coordinates *)

\* C20: an offset position converted to a cube position and back is the
\* offset position it was, in negative and in odd columns too; a cube
\* position with x + y + z = 0 converted to an offset position and back is
\* the cube position it was.
C20_CoordinatesRoundTrip ==
    last.op = "round_trip" => last.value = combat[1]

\* An offset position of a negative odd column went there and back.
C20_Witness ==
    /\ last.op = "round_trip"
    /\ last.from = "OffsetPos"
    /\ combat[1][1] = -3
    /\ last.value = combat[1]

\* C21: every position made from Pos::origin() or OffsetPos::to_pos by
\* neighbor, translate by such a position, amplify, neg and around, and every
\* position of a path the PathWalker returns from such a position, has
\* x + y + z = 0.
C21_CubeSumIsZero ==
    /\ last.value[1] + last.value[2] + last.value[3] = 0
    /\ \A i \in 1..Len(yielded) : yielded[i][1] + yielded[i][2] + yielded[i][3] = 0

\* A position amplified away from the origin at the end of a run.
C21_Witness ==
    /\ ops = MaxOps
    /\ last.op = "amplify"
    /\ last.value[1] > MaxFactor
    /\ last.value[1] + last.value[2] + last.value[3] = 0

\* C22: the live units of every line-up stand on pairwise distinct cells, and
\* after any sequence of moveunit_to, attack and refresh they still do.
C22_LiveUnitsApart == LiveApart(units)

\* An attack killed the defender and the attacker, alive, took its cell, next
\* to a third unit still alive.
C22_Witness ==
    /\ last.op = "attack"
    /\ last.defender_hp = 0
    /\ last.attacker_hp > 0
    /\ units[last.stats.attacker_id].pos = last.before[last.stats.defender_id].pos
    /\ units[last.stats.attacker_id].pos # last.before[last.stats.attacker_id].pos
    /\ Cardinality(all_units(units)) > 1
    /\ LiveApart(units)

\* C23: once next() has returned None, every later call of next() returns
\* None as well: the walker does not start over.
C23_NoneIsFinal ==
    (exhausted /\ calls = "next") => yielded = <<>>

\* C24: whatever the max_depth and wherever backoff() is called between the
\* calls, next() returns None in the end, having returned a path at most as
\* many times as there are direction sequences of 1..max_depth directions.
C24_WalkEnds ==
    /\ [](count <= DirectionSequences(walker.max_depth))
    /\ <>exhausted

\* A walker of the largest depth returned None after a walk in which backoff()
\* cut some paths off, and one after a walk of all the direction sequences.
C24_Witness ==
    /\ exhausted
    /\ walker.max_depth = TermDepth
    /\ calls = "next"
    /\ count > DIRECTION_COUNT
    /\ count < DirectionSequences(walker.max_depth)

\* The last operation was moveunit_to towards a reachable cell on which a live
\* unit stands.
MovedOntoUnit ==
    /\ last.op = "moveunit_to"
    /\ last.pos \in DOMAIN last.reachable
    /\ unit_at_pos(last.before, last.pos) # NoUnit

\* C25: moveunit_to towards a reachable cell occupied by an enemy returns a
\* combat preview, changes no unit's HP and does not put the attacker on the
\* defender's cell: the attacker stays where it is when the path has one step,
\* and stands on the path's second-to-last cell, next to the defender,
\* otherwise.
C25_AttackPreviewOnly ==
    MovedOntoUnit =>
        LET path == last.reachable[last.pos]
        IN /\ ~panicked
           /\ combat # <<>>
           /\ \A i \in 1..Len(units) : units[i].hp = last.before[i].hp
           /\ units[last.unit_id].pos # last.pos
           /\ steps(path) = 1 => units[last.unit_id].pos = Mover.pos
           /\ steps(path) > 1 =>
                 /\ units[last.unit_id].pos = before_last(path)
                 /\ IsHexNeighbor(before_last(path), last.pos)

\* C26: moveunit_to towards a position that is not a key of the reachable map
\* returns None and leaves every unit's position, movements and HP as they
\* were.
C26_UnreachableTargetChangesNothing ==
    (last.op = "moveunit_to" /\ last.pos \notin DOMAIN last.reachable) =>
        /\ combat = <<>>
        /\ ~panicked
        /\ \A i \in 1..Len(units) :
              /\ units[i].pos = last.before[i].pos
              /\ units[i].movements = last.before[i].movements
              /\ units[i].hp = last.before[i].hp

\* A unit with movements left was sent to a cell other than its own that it
\* cannot reach, while other cells were within its reach.
C26_Witness ==
    /\ last.op = "moveunit_to"
    /\ last.pos \notin DOMAIN last.reachable
    /\ last.pos # Mover.pos
    /\ DOMAIN last.reachable # {}
    /\ Mover.movements > 0
    /\ combat = <<>>
    /\ units = last.before

\* C29: every path reachable_pos stores for a unit with M movements costs,
\* without its last step, strictly less than M, and so at most M + 1 in all:
\* a hill is reachable with one movement left, and no stored path goes on from
\* a cell at which the cost has reached M.
C29_StoredPathWithinMovements ==
    last.op = "moveunit_to" =>
        \A d \in DOMAIN last.reachable :
            LET path == last.reachable[d]
            IN /\ PathCost(SubSeq(path, 1, Len(path) - 1)) < Mover.movements
               /\ PathCost(path) <= Mover.movements + 1
               /\ \A k \in 2..(Len(path) - 1) :
                     PathCost(SubSeq(path, 1, k)) < Mover.movements

\* A unit with one movement left has a hill in its reachable map, at a cost of
\* two, and a cell of grassland as well.
C29_Witness ==
    /\ last.op = "moveunit_to"
    /\ Mover.movements = 1
    /\ \E d \in DOMAIN last.reachable :
          /\ get_terrain(terrain, d) = "Hill"
          /\ PathCost(last.reachable[d]) = Mover.movements + 1
    /\ \E d \in DOMAIN last.reachable : get_terrain(terrain, d) # "Hill"

\* C30: when roll() takes both units below zero by the same amount, the
\* defender is revived to 1 HP and the attacker ends with 0.
C30_TieRevivesDefender ==
    (last.op = "roll" /\ TentativeAttackerHp < 0
                      /\ TentativeDefenderHp = TentativeAttackerHp) =>
        /\ defender_remaining_hp(combat[1]) = 1
        /\ attacker_remaining_hp(combat[1]) = 0

\* Two units of different HP were taken equally far below zero.
C30_Witness ==
    /\ last.op = "roll"
    /\ TentativeAttackerHp < 0
    /\ TentativeDefenderHp = TentativeAttackerHp
    /\ last.stats.attacker_starting_hp # last.stats.defender_starting_hp
    /\ defender_remaining_hp(combat[1]) = 1
    /\ attacker_remaining_hp(combat[1]) = 0

\* What the last key press found: the state of the main loop before it.
KeyIn(state) == last.op = "key" /\ last.game.state = state

\* The last step of the loop left every unit's HP as it was.
HpUnchanged == \A i \in DOMAIN units : units[i].hp = last.before[i].hp

\* The units are the ones of before the key, one roll of the combat applied.
AttackedOnce ==
    \E to_attacker \in roll_dice(dmgrange_to_attacker(last.stats[1])) :
       \E to_defender \in roll_dice(dmgrange_to_defender(last.stats[1])) :
          units = Units_attack(last.before,
                               roll(last.stats[1], to_attacker, to_defender))

\* C27: in the game loop HP changes only on Ok in CombatConfirm, where one
\* roll of the attack is applied and the state becomes MessageDialog;
\* MessageDialog returns to Normal only on Ok; Cancel in CombatConfirm returns
\* to Normal with HP unchanged; any other key in a dialog state leaves the
\* state and the units unchanged.
C27_HpChangesOnlyOnConfirm ==
    /\ last.op \in {"key", "event"} =>
          (~HpUnchanged => KeyIn("CombatConfirm") /\ last.result = "Ok")
    /\ (KeyIn("CombatConfirm") /\ last.result = "Ok") =>
          game.state = "MessageDialog" /\ AttackedOnce
    /\ (KeyIn("CombatConfirm") /\ last.result = "Cancel") =>
          game.state = "Normal" /\ units = last.before
    /\ (KeyIn("CombatConfirm") /\ last.result = "None") =>
          game = last.game /\ units = last.before /\ combat = last.stats
    /\ (KeyIn("MessageDialog") /\ last.result = "Ok") =>
          game.state = "Normal" /\ units = last.before
    /\ (KeyIn("MessageDialog") /\ last.result # "Ok") =>
          game = last.game /\ units = last.before

\* The player confirmed an attack that cost a unit some HP, and the result
\* dialog is up.
C27_Witness ==
    /\ KeyIn("CombatConfirm")
    /\ last.result = "Ok"
    /\ ~HpUnchanged
    /\ game.state = "MessageDialog"

\* C28: a dialog is present whenever the state is CombatConfirm or
\* MessageDialog, so the assertions of the two dialog key handlers never
\* fail, and no dialog is present when the state is Normal.
C28_DialogShownInDialogStates ==
    /\ game.state \in {"CombatConfirm", "MessageDialog"} =>
          game.current_dialog # <<>>
    /\ game.state = "Normal" => game.current_dialog = <<>>
    /\ (KeyIn("CombatConfirm") \/ KeyIn("MessageDialog")) => ~panicked

\* An attack was confirmed, its result dismissed, and the loop is back in
\* Normal with no dialog.
C28_Witness ==
    /\ KeyIn("MessageDialog")
    /\ last.game.current_dialog # <<>>
    /\ game.state = "Normal"
    /\ game.current_dialog = <<>>
    /\ ~panicked

====
